---------------------------- MODULE Spec2Model ----------------------------
(***************************************************************************)
(* A model of the in-process registry of pkg/registry: the router, the     *)
(* capability-based blob engine with its in-memory backend (memHandler),   *)
(* the manifest engine, tag listing and catalog.                           *)
(*                                                                         *)
(* A request is a record (method, split URL path, query, headers, body);   *)
(* a handler is an operator from the backend's state and a request to the  *)
(* set of outcomes (new state, response) the code can produce.  Each       *)
(* handler runs as one step: memHandler serialises its operations with     *)
(* one lock and the claims checked here are about requests served one at   *)
(* a time.                                                                 *)
(***************************************************************************)
EXTENDS Integers, Sequences, FiniteSets, TLC

VARIABLES
    blobs,      \* memHandler.blobs: digest string -> bytes
    uploads,    \* memHandler.uploads: upload id -> bytes accumulated
    manifests,  \* memHandler.manifests: repo -> key (tag or digest) -> manifest
    nextID,     \* number of upload ids handed out so far by begin-upload POSTs
    sent,       \* history: per upload id that no PUT has named yet, the bodies
                \* of the PATCHes answered 204, in order
    session,    \* history: per upload id, "open" while no PUT has named it
                \* ("patched" once a client that sends one PATCH per session
                \* has sent it), "finalized" once a PUT was answered 201,
                \* else "closed"
    req,        \* the request served last
    resp,       \* the response given to it
    flight,     \* per concurrent client: the request its handler is serving,
                \* the handler's position between two backend calls, and the
                \* response once it has one
    call,       \* the library function called last, outside the registry:
                \* its name, its arguments and what it returned
    backend,    \* the extension interfaces the storage backend implements
    older       \* the Storage-based registry served the same requests: its
                \* memStore and the response it gave last

vars == <<blobs, uploads, manifests, nextID, sent, session, req, resp, flight, call, backend, older>>

---------------------------------------------------------------------------
(* Bounds of the model. *)

\* Longest blob content, and the most bytes held by upload sessions at once.
MaxLen == 2
\* Number of upload ids the begin-upload POST hands out.
MaxIDs == 2
\* Number of blobs the store may hold before further uploads are not tried.
MaxBlobs == 1
\* Number of manifest keys (tags and digests) stored over all repositories.
MaxKeys == 3

---------------------------------------------------------------------------
(* Bytes, digests and strings. *)

\* Byte values of blob contents.
BlobByte == {1, 2}

\* Byte values of manifest bodies: 0 is a byte that makes the body invalid
\* JSON; 1 and 2 are bytes that carry no descriptor; a byte b >= 3 stands
\* for one descriptor of an index (see ParseIndexManifest).
ManifestByte == 0..10

\* Radix of the digest encoding: the number of byte values.
Radix == Cardinality(ManifestByte)

RECURSIVE SeqsUpTo(_, _)
SeqsUpTo(S, n) ==
    IF n = 0 THEN {<<>>}
    ELSE LET shorter == SeqsUpTo(S, n - 1)
         IN  shorter \cup {Append(s, b) : s \in {t \in shorter : Len(t) = n - 1}, b \in S}

\* Every blob content of the model.
Contents == SeqsUpTo(BlobByte, MaxLen)

\* sha256.Sum256: the property the registry relies on is that distinct
\* contents have distinct digests.  The digest of a byte string is its value
\* as a numeral in bijective base Radix, which is injective on all strings.
RECURSIVE Sha256(_)
Sha256(b) ==
    IF b = <<>> THEN 0
    ELSE Sha256(SubSeq(b, 1, Len(b) - 1)) * Radix + (b[Len(b)] + 1)

\* v1.Hash.String / "sha256:" + hex.EncodeToString(sum).
HashString(n) == "sha256:" \o ToString(n)

DigestOf(b) == HashString(Sha256(b))

\* The largest digest value of a string of at most MaxLen + 1 bytes.
RECURSIVE MaxHash(_)
MaxHash(n) == IF n = 0 THEN 0 ELSE MaxHash(n - 1) * Radix + (Radix - 1)

\* The well-formed digest strings: those of every byte string of at most
\* MaxLen + 1 bytes.
HashStrings == {HashString(n) : n \in 0..MaxHash(MaxLen + 1)}

\* v1.NewHash: parses "sha256:<hex>"; anything else is an error.
NewHash(s) ==
    IF s \in HashStrings
    THEN [err |-> "", hash |-> s]
    ELSE [err |-> "invalid", hash |-> ""]

\* strings.HasPrefix(target, "sha256:") and strings.Contains(tag, "sha256:")
\* on the strings of the model: the only ones that hold "sha256:" are the
\* digest strings, which start with it.
HasDigestPrefix(s) == NewHash(s).err = ""

RECURSIVE Join(_)
\* strings.Join(elems, "/") and path.Join(elems...) on clean segments.
Join(elems) ==
    IF Len(elems) = 0 THEN ""
    ELSE IF Len(elems) = 1 THEN elems[1]
    ELSE elems[1] \o "/" \o Join(Tail(elems))

\* s[from:to] of Go: the elements from+1 .. to (empty if none).
Slice(s, from, to) == IF to <= from THEN <<>> ELSE SubSeq(s, from + 1, to)

\* m[k] of a Go map of byte slices: the zero value when k is absent.
Lookup(m, k) == IF k \in DOMAIN m THEN m[k] ELSE <<>>

\* An empty Go map.
EmptyMap == [x \in {} |-> <<>>]

\* m[k] = v of a Go map.
MapSet(m, k, v) == [x \in DOMAIN m \cup {k} |-> IF x = k THEN v ELSE m[x]]

\* delete(m, k) of a Go map.
MapDelete(m, k) == [x \in DOMAIN m \ {k} |-> m[x]]

---------------------------------------------------------------------------
(* Responses and the error model. *)

\* A response: status, error code and message (empty on success) and the
\* headers and body the handlers set ("" or -1 when a header is not set).
Response(status) ==
    [status |-> status, code |-> "", message |-> "",
     digest |-> "", length |-> -1, ctype |-> "", location |-> "", range |-> "",
     version |-> "", name |-> "", body |-> <<>>, list |-> <<>>]

\* regError{Status, Code, Message}, written by regError.Write as the JSON
\* envelope {"errors":[{"code":..,"message":..}]}.
RegError(status, code, message) ==
    [Response(status) EXCEPT !.code = code, !.message = message]

regErrInternal(message) == RegError(500, "INTERNAL_ERROR", message)
regErrBlobUnknown == RegError(404, "BLOB_UNKNOWN", "Unknown blob")
regErrUnsupported == RegError(404, "UNSUPPORTED", "Unsupported operation")
regErrDigestMismatch == RegError(400, "DIGEST_INVALID", "digest does not match contents")
regErrDigestInvalid == RegError(400, "NAME_INVALID", "invalid digest")
regErrManifestUnknown == RegError(404, "MANIFEST_UNKNOWN", "Unknown manifest")
regErrUnknownName == RegError(404, "NAME_UNKNOWN", "Unknown name")

\* The backend's state, as the handlers take and return it.
State(b, u, m) == [blobs |-> b, uploads |-> u, manifests |-> m]

\* One outcome of a handler.
Outcome(st, r) == [st |-> st, resp |-> r]

---------------------------------------------------------------------------
(* The verifying reader (internal/verify). *)

\* verify.ReadCloser(rc, size, h) read to EOF by ioutil.ReadAll: the bytes,
\* or a verify.Error when their number differs from size or their digest
\* from h.
VerifiedReadAll(content, size, h) ==
    IF Len(content) # size THEN [err |-> "verify", data |-> <<>>]
    ELSE IF DigestOf(content) # h THEN [err |-> "verify", data |-> <<>>]
    ELSE [err |-> "", data |-> content]

---------------------------------------------------------------------------
(* memHandler: blobs and uploads. *)

\* The capabilities (extension interfaces) memHandler implements.
MemCaps ==
    {"blobStat", "blobPut", "upload", "uploadFinalize",
     "manifestTagGet", "manifestPut", "manifestTag", "manifestDelete",
     "manifestDeleteTag", "manifestTagList", "catalog"}

\* memHandler.Stat
Stat(st, h) ==
    IF h \notin DOMAIN st.blobs THEN [err |-> "notfound", size |-> 0]
    ELSE [err |-> "", size |-> Len(st.blobs[h])]

\* A Get that never finds the blob.
GetNothing(st, h) == [err |-> "notfound", data |-> <<>>]

\* memHandler.Get
Get(st, h) ==
    IF h \notin DOMAIN st.blobs THEN [err |-> "notfound", data |-> <<>>]
    ELSE [err |-> "", data |-> st.blobs[h]]

\* A Put that stores what it is handed under h without reading it through
\* the verifying reader.
PutUnverified(st, h, content, size) ==
    [err |-> "", st |-> [st EXCEPT !.blobs = MapSet(st.blobs, h, content)]]

\* memHandler.Put, given the verifying reader over (content, size, h).
Put(st, h, content, size) ==
    LET all == VerifiedReadAll(content, size, h)
    IN  IF all.err # "" THEN [err |-> all.err, st |-> st]
        ELSE [err |-> "", st |-> [st EXCEPT !.blobs = MapSet(st.blobs, h, all.data)]]

\* A StatUpload that reports every upload as empty.
StatUploadZero(st, uploadID) == [err |-> "", size |-> 0]

\* memHandler.StatUpload
StatUpload(st, uploadID) == [err |-> "", size |-> Len(Lookup(st.uploads, uploadID))]

\* An AppendUpload that keeps only the bytes of the last call.
AppendUploadReplacing(st, uploadID, next) ==
    [err |-> "", size |-> Len(next),
     st |-> [st EXCEPT !.uploads = MapSet(st.uploads, uploadID, next)]]

\* memHandler.AppendUpload
AppendUpload(st, uploadID, next) ==
    LET all == Lookup(st.uploads, uploadID) \o next
    IN  [err |-> "", size |-> Len(all),
         st |-> [st EXCEPT !.uploads = MapSet(st.uploads, uploadID, all)]]

\* memHandler.FinishUpload
FinishUpload(st, uploadID, last) ==
    LET have == Lookup(st.uploads, uploadID)
    IN  [err |-> "", data |-> have \o last, size |-> Len(have) + Len(last),
         st |-> [st EXCEPT !.uploads = MapDelete(st.uploads, uploadID)]]

\* A FinalizeUpload that verifies and promotes the body of the PUT alone,
\* dropping the bytes accumulated by AppendUpload.
FinalizeUploadLastOnly(st, uploadID, last, h) ==
    LET dropped == [st EXCEPT !.uploads = MapDelete(st.uploads, uploadID)]
        read == VerifiedReadAll(last, Len(last), h)
    IN  IF read.err # "" THEN [err |-> read.err, st |-> dropped]
        ELSE [err |-> "", st |-> [dropped EXCEPT !.blobs = MapSet(dropped.blobs, h, read.data)]]

\* A FinalizeUpload that promotes the bytes it has under h without reading
\* them through the verifying reader.
FinalizeUploadUnverified(st, uploadID, last, h) ==
    LET dropped == [st EXCEPT !.uploads = MapDelete(st.uploads, uploadID)]
    IN  [err |-> "",
         st |-> [dropped EXCEPT !.blobs =
                    MapSet(dropped.blobs, h, Lookup(st.uploads, uploadID) \o last)]]

\* A FinalizeUpload that deletes the session only once its bytes are
\* verified.
FinalizeUploadKeeping(st, uploadID, last, h) ==
    LET have == Lookup(st.uploads, uploadID)
        dropped == [st EXCEPT !.uploads = MapDelete(st.uploads, uploadID)]
        all == have \o last
        read == VerifiedReadAll(all, Len(all), h)
    IN  IF read.err # "" THEN [err |-> read.err, st |-> st]
        ELSE [err |-> "", st |-> [dropped EXCEPT !.blobs = MapSet(dropped.blobs, h, read.data)]]

\* memHandler.FinalizeUpload
FinalizeUpload(st, uploadID, last, h) ==
    LET have == Lookup(st.uploads, uploadID)
        dropped == [st EXCEPT !.uploads = MapDelete(st.uploads, uploadID)]
        all == have \o last
        read == VerifiedReadAll(all, Len(all), h)
    IN  IF read.err # "" THEN [err |-> read.err, st |-> dropped]
        ELSE [err |-> "", st |-> [dropped EXCEPT !.blobs = MapSet(dropped.blobs, h, read.data)]]

---------------------------------------------------------------------------
(* Requests. *)

\* A request: the method, req.URL.Path split at "/" with the leading empty
\* element dropped (elem[1:] of the handlers), the digest and n query
\* parameters, the Content-Range and Content-Type headers ("" when absent)
\* and the body.
Request(method, elem, digest, contentRange, contentType, n, body) ==
    [method |-> method, elem |-> elem, digest |-> digest,
     contentRange |-> contentRange, contentType |-> contentType, n |-> n,
     body |-> body]

\* The header Content-Range: <start>-<end>.
RangeHeader(start, end) == ToString(start) \o "-" \o ToString(end)

\* The well-formed Content-Range headers, each with its start.
RangeHeaders ==
    {<<s, RangeHeader(s, e)>> : s \in 0..(MaxLen + 1), e \in -1..(2 * MaxLen + 1)}

\* fmt.Sscanf(contentRange, "%d-%d", &start, new(int)): the start, or an
\* error when the header is not two integers joined by "-".
ScanRange(contentRange) ==
    LET starts == {p[1] : p \in {q \in RangeHeaders : q[2] = contentRange}}
    IN  IF starts = {} THEN [err |-> "scan", start |-> 0]
        ELSE [err |-> "", start |-> CHOOSE s \in starts : TRUE]

\* The elements of the path with a trailing empty one dropped
\* (blobs.handle, isBlob).
DropTrailingEmpty(elem) ==
    IF Len(elem) > 0 /\ elem[Len(elem)] = "" THEN SubSeq(elem, 1, Len(elem) - 1) ELSE elem

---------------------------------------------------------------------------
(* The blob engine. *)

\* isBlob
isBlob(r) ==
    LET elem == DropTrailingEmpty(r.elem)
        n == Len(elem)
    IN  IF n < 3 THEN FALSE
        ELSE elem[n - 1] = "blobs" \/ (elem[n - 2] = "blobs" /\ elem[n - 1] = "uploads")

\* The error mapping of blobs.handle for Stat and Get.
BlobReadError(err) ==
    IF err = "notfound" THEN regErrBlobUnknown ELSE regErrInternal(err)

\* blobs.handle, case HEAD.
BlobsHead(caps, st, repo, target) ==
    LET h == NewHash(target)
    IN  IF h.err # "" THEN Outcome(st, RegError(400, "NAME_INVALID", "invalid digest"))
        ELSE IF "blobStat" \in caps
        THEN LET stat == Stat(st, h.hash)
             IN  IF stat.err # "" THEN Outcome(st, BlobReadError(stat.err))
                 ELSE Outcome(st, [Response(200) EXCEPT
                                     !.length = stat.size, !.digest = h.hash])
        ELSE LET got == Get(st, h.hash)
             IN  IF got.err # "" THEN Outcome(st, BlobReadError(got.err))
                 ELSE Outcome(st, [Response(200) EXCEPT
                                     !.length = Len(got.data), !.digest = h.hash])

\* blobs.handle, case GET.
BlobsGet(caps, st, repo, target) ==
    LET h == NewHash(target)
    IN  IF h.err # "" THEN Outcome(st, RegError(400, "NAME_INVALID", "invalid digest"))
        ELSE IF "blobStat" \in caps
        THEN LET stat == Stat(st, h.hash)
                 got == Get(st, h.hash)
             IN  IF stat.err # "" THEN Outcome(st, BlobReadError(stat.err))
                 ELSE IF got.err # "" THEN Outcome(st, BlobReadError(got.err))
                 ELSE Outcome(st, [Response(200) EXCEPT
                                     !.length = stat.size, !.digest = h.hash,
                                     !.body = got.data])
        ELSE LET got == Get(st, h.hash)
             IN  IF got.err # "" THEN Outcome(st, BlobReadError(got.err))
                 ELSE Outcome(st, [Response(200) EXCEPT
                                     !.length = Len(got.data), !.digest = h.hash,
                                     !.body = got.data])

\* blobs.handle, case POST; id is the value rand.Int63 returns.
BlobsPost(caps, st, r, elem, repo, target, id) ==
    IF "blobPut" \notin caps THEN Outcome(st, regErrUnsupported)
    ELSE IF target # "uploads"
    THEN Outcome(st, RegError(400, "METHOD_UNKNOWN", "POST to /blobs must be followed by /uploads"))
    ELSE IF r.digest # ""
    THEN LET h == NewHash(r.digest)
         IN  IF h.err # "" THEN Outcome(st, regErrDigestInvalid)
             ELSE LET put == Put(st, h.hash, r.body, Len(r.body))
                  IN  IF put.err = "verify" THEN Outcome(st, regErrDigestMismatch)
                      ELSE IF put.err # "" THEN Outcome(st, regErrInternal(put.err))
                      ELSE Outcome(put.st, [Response(201) EXCEPT !.digest = h.hash])
    ELSE IF "upload" \notin caps THEN Outcome(st, regErrUnsupported)
    ELSE Outcome(st, [Response(202) EXCEPT
                        !.location = "/" \o Join(<<"v2", Join(Slice(elem, 1, Len(elem) - 2)),
                                                   "blobs/uploads", id>>),
                        !.range = "0-0"])

\* A PATCH response whose Location is built from the path as the POST
\* builds it.
PatchAcceptedLikePost(elem, target, size) ==
    [Response(204) EXCEPT
       !.location = "/" \o Join(<<"v2", Join(Slice(elem, 1, Len(elem) - 2)),
                                  "blobs/uploads", target>>),
       !.range = "0-" \o ToString(size - 1)]

\* The response of a successful PATCH.
PatchAccepted(elem, target, size) ==
    [Response(204) EXCEPT
       !.location = "/" \o Join(<<"v2", Join(Slice(elem, 1, Len(elem) - 3)),
                                  "blobs/uploads", target>>),
       !.range = "0-" \o ToString(size - 1)]

\* blobs.handle, case PATCH.
BlobsPatch(caps, st, r, elem, service, target) ==
    IF service # "uploads"
    THEN Outcome(st, RegError(400, "METHOD_UNKNOWN", "PATCH to /blobs must be followed by /uploads"))
    ELSE IF "upload" \notin caps THEN Outcome(st, regErrUnsupported)
    ELSE IF r.contentRange # ""
    THEN LET scan == ScanRange(r.contentRange)
             stat == StatUpload(st, target)
             app == AppendUpload(st, target, r.body)
         IN  IF scan.err # ""
             THEN Outcome(st, RegError(416, "BLOB_UPLOAD_UNKNOWN",
                                       "We don't understand your Content-Range"))
             ELSE IF stat.err # "" THEN Outcome(st, regErrInternal(stat.err))
             ELSE IF scan.start # stat.size
             THEN Outcome(st, RegError(416, "BLOB_UPLOAD_UNKNOWN",
                                       "Your content range doesn't match what we have"))
             ELSE IF app.err # "" THEN Outcome(st, regErrInternal(app.err))
             ELSE Outcome(app.st, PatchAccepted(elem, target, app.size))
    ELSE LET stat == StatUpload(st, target)
             app == AppendUpload(st, target, r.body)
         IN  IF stat.err # "" THEN Outcome(st, regErrInternal(stat.err))
             ELSE IF stat.size # 0
             THEN Outcome(st, RegError(400, "BLOB_UPLOAD_INVALID",
                                       "Stream uploads after first write are not allowed"))
             ELSE IF app.err # "" THEN Outcome(st, regErrInternal(app.err))
             ELSE Outcome(app.st, PatchAccepted(elem, target, app.size))

\* blobs.handle, case PUT.
BlobsPut(caps, st, r, repo, service, target) ==
    IF "upload" \notin caps THEN Outcome(st, regErrUnsupported)
    ELSE IF service # "uploads"
    THEN Outcome(st, RegError(400, "METHOD_UNKNOWN", "PUT to /blobs must be followed by /uploads"))
    ELSE IF r.digest = ""
    THEN Outcome(st, RegError(400, "DIGEST_INVALID", "digest not specified"))
    ELSE LET h == NewHash(r.digest)
         IN  IF h.err # "" THEN Outcome(st, RegError(400, "NAME_INVALID", "invalid digest"))
             ELSE IF "uploadFinalize" \in caps
             THEN LET fin == FinalizeUpload(st, target, r.body, h.hash)
                  IN  IF fin.err # "" THEN Outcome(fin.st, regErrInternal(fin.err))
                      ELSE Outcome(fin.st, [Response(201) EXCEPT !.digest = h.hash])
             ELSE IF "blobPut" \notin caps THEN Outcome(st, regErrUnsupported)
             ELSE LET fin == FinishUpload(st, target, r.body)
                      put == Put(fin.st, h.hash, fin.data, fin.size)
                  IN  IF fin.err # "" THEN Outcome(st, regErrInternal(fin.err))
                      ELSE IF put.err = "verify" THEN Outcome(put.st, regErrDigestMismatch)
                      ELSE IF put.err # "" THEN Outcome(put.st, regErrInternal(put.err))
                      ELSE Outcome(put.st, [Response(201) EXCEPT !.digest = h.hash])

\* blobs.handle: the repository name passed to Stat, Get and Put, where
\* elem is the path without a trailing empty element.  req.URL.Host is
\* empty in the requests a server receives.
BlobsRepo(elem) == Join(Slice(elem, 1, Len(elem) - 2))

\* blobs.handle
BlobsHandle(caps, st, r, id) ==
    LET elem == DropTrailingEmpty(r.elem)
        n == Len(elem)
    IN  IF n < 4
        THEN Outcome(st, RegError(400, "NAME_INVALID", "blobs must be attached to a repo"))
        ELSE LET target == elem[n]
                 service == elem[n - 1]
                 repo == BlobsRepo(elem)
             IN  CASE r.method = "HEAD" -> BlobsHead(caps, st, repo, target)
                   [] r.method = "GET" -> BlobsGet(caps, st, repo, target)
                   [] r.method = "POST" -> BlobsPost(caps, st, r, elem, repo, target, id)
                   [] r.method = "PATCH" -> BlobsPatch(caps, st, r, elem, service, target)
                   [] r.method = "PUT" -> BlobsPut(caps, st, r, repo, service, target)
                   [] OTHER -> Outcome(st, RegError(400, "METHOD_UNKNOWN",
                                                    "We don't understand your method + url"))

---------------------------------------------------------------------------
(* Media types and index manifests (pkg/v1/types, v1.ParseIndexManifest). *)

OCIManifestSchema1 == "application/vnd.oci.image.manifest.v1+json"
OCIImageIndex == "application/vnd.oci.image.index.v1+json"
OCILayer == "application/vnd.oci.image.layer.v1.tar+gzip"
DockerForeignLayer == "application/vnd.docker.image.rootfs.foreign.diff.tar.gzip"

\* types.MediaType.IsIndex
IsIndex(mt) == mt = OCIImageIndex

\* types.MediaType.IsImage
IsImage(mt) == mt = OCIManifestSchema1

\* types.MediaType.IsDistributable
IsDistributable(mt) == mt # DockerForeignLayer

\* The media types a descriptor byte can name, in the order of its code.
DescriptorTypes == <<OCIManifestSchema1, OCIImageIndex, OCILayer, DockerForeignLayer>>

\* The descriptor a byte b >= 3 of an index body stands for: its media type
\* and the digest of the child it references, which is the digest of one of
\* the one-byte bodies <<1>> and <<2>>.
DescriptorOf(b) ==
    [mediaType |-> DescriptorTypes[((b - 3) \div 2) + 1],
     digest |-> DigestOf(<<((b - 3) % 2) + 1>>)]

RECURSIVE DescriptorsOf(_)
DescriptorsOf(body) ==
    IF body = <<>> THEN <<>>
    ELSE IF Head(body) >= 3 THEN <<DescriptorOf(Head(body))>> \o DescriptorsOf(Tail(body))
    ELSE DescriptorsOf(Tail(body))

\* v1.ParseIndexManifest: the descriptors of the body's "manifests" list, or
\* an error when the body is not valid JSON.
ParseIndexManifest(body) ==
    IF \E i \in 1..Len(body) : body[i] = 0
    THEN [err |-> "invalid character", manifests |-> <<>>]
    ELSE [err |-> "", manifests |-> DescriptorsOf(body)]

\* manifest{contentType, blob}
Manifest(contentType, blob) == [contentType |-> contentType, blob |-> blob]

---------------------------------------------------------------------------
(* memHandler: manifests. *)

\* A GetManifestByDigest that finds the digest in whichever repository
\* stores it.
GetManifestInAnyRepo(st, repo, digest) ==
    LET holders == {R \in DOMAIN st.manifests : digest \in DOMAIN st.manifests[R]}
    IN  IF holders = {} THEN [err |-> "notfound", mf |-> Manifest("", <<>>)]
        ELSE [err |-> "", mf |-> st.manifests[CHOOSE R \in holders : TRUE][digest]]

\* memHandler.GetManifestByDigest
GetManifestByDigest(st, repo, digest) ==
    IF repo \notin DOMAIN st.manifests
    THEN [err |-> "notfound", mf |-> Manifest("", <<>>)]
    ELSE IF digest \notin DOMAIN st.manifests[repo]
    THEN [err |-> "notfound", mf |-> Manifest("", <<>>)]
    ELSE [err |-> "", mf |-> st.manifests[repo][digest]]

\* memHandler.GetManifestByTag
GetManifestByTag(st, repo, tag) == GetManifestByDigest(st, repo, tag)

\* memHandler.PutManifest
PutManifest(st, repo, digest, mf) ==
    LET c == IF repo \in DOMAIN st.manifests THEN st.manifests[repo] ELSE EmptyMap
    IN  [err |-> "",
         st |-> [st EXCEPT !.manifests = MapSet(st.manifests, repo, MapSet(c, digest, mf))]]

\* A TagManifest that leaves a tag that is already set as it is.
TagManifestOnce(st, repo, digest, tag) ==
    IF repo \notin DOMAIN st.manifests THEN [err |-> "notfound", st |-> st]
    ELSE IF digest \notin DOMAIN st.manifests[repo] THEN [err |-> "notfound", st |-> st]
    ELSE IF tag \in DOMAIN st.manifests[repo] THEN [err |-> "", st |-> st]
    ELSE [err |-> "",
          st |-> [st EXCEPT !.manifests =
                     MapSet(st.manifests, repo,
                            MapSet(st.manifests[repo], tag, st.manifests[repo][digest]))]]

\* memHandler.TagManifest
TagManifest(st, repo, digest, tag) ==
    IF repo \notin DOMAIN st.manifests THEN [err |-> "notfound", st |-> st]
    ELSE IF digest \notin DOMAIN st.manifests[repo] THEN [err |-> "notfound", st |-> st]
    ELSE [err |-> "",
          st |-> [st EXCEPT !.manifests =
                     MapSet(st.manifests, repo,
                            MapSet(st.manifests[repo], tag, st.manifests[repo][digest]))]]

\* A DeleteManifest that reports success and keeps the manifest.
DeleteManifestKeeping(st, repo, digest) ==
    IF repo \notin DOMAIN st.manifests THEN [err |-> "notfound", st |-> st]
    ELSE IF digest \notin DOMAIN st.manifests[repo] THEN [err |-> "notfound", st |-> st]
    ELSE [err |-> "", st |-> st]

\* A DeleteManifest that removes, with the key, every key of the repository
\* that holds the same manifest.
DeleteManifestWithAliases(st, repo, digest) ==
    IF repo \notin DOMAIN st.manifests THEN [err |-> "notfound", st |-> st]
    ELSE IF digest \notin DOMAIN st.manifests[repo] THEN [err |-> "notfound", st |-> st]
    ELSE LET c == st.manifests[repo]
             kept == {k \in DOMAIN c : c[k] # c[digest]}
         IN  [err |-> "",
              st |-> [st EXCEPT !.manifests = MapSet(st.manifests, repo, [k \in kept |-> c[k]])]]

\* memHandler.DeleteManifest
DeleteManifest(st, repo, digest) ==
    IF repo \notin DOMAIN st.manifests THEN [err |-> "notfound", st |-> st]
    ELSE IF digest \notin DOMAIN st.manifests[repo] THEN [err |-> "notfound", st |-> st]
    ELSE [err |-> "",
          st |-> [st EXCEPT !.manifests =
                     MapSet(st.manifests, repo, MapDelete(st.manifests[repo], digest))]]

\* memHandler.DeleteManifestByTag
DeleteManifestByTag(st, repo, tag) == DeleteManifest(st, repo, tag)

\* The strings sort.Strings is applied to, in lexicographic order.
Alphabetical == <<"a", "latest", "m", "v1", "z">>

RECURSIVE SortedFrom(_, _)
SortedFrom(order, S) ==
    IF order = <<>> THEN <<>>
    ELSE IF Head(order) \in S THEN <<Head(order)>> \o SortedFrom(Tail(order), S)
    ELSE SortedFrom(Tail(order), S)

\* sort.Strings of the strings of S.
SortStrings(S) == SortedFrom(Alphabetical, S)

\* The sets of keys a `for k := range m` loop that breaks once count >= n
\* can have visited: Go iterates a map in an unspecified order, so any
\* min(n, len(m)) of the keys.
RangeVisits(keys, n) ==
    LET k == IF n <= 0 THEN 0
             ELSE IF n >= Cardinality(keys) THEN Cardinality(keys) ELSE n
    IN  {V \in SUBSET keys : Cardinality(V) = k}

\* memHandler.ListTags: the results the call can return.
ListTags(st, repo, n) ==
    IF repo \notin DOMAIN st.manifests THEN {[err |-> "notfound", tags |-> <<>>]}
    ELSE {[err |-> "", tags |-> SortStrings({tag \in V : ~HasDigestPrefix(tag)})] :
             V \in RangeVisits(DOMAIN st.manifests[repo], n)}

\* memHandler.Catalog: the results the call can return.
Catalog(st, n) ==
    {[err |-> "", repos |-> SortStrings(V)] : V \in RangeVisits(DOMAIN st.manifests, n)}

---------------------------------------------------------------------------
(* The manifest engine. *)

\* isManifest
isManifest(r) ==
    LET n == Len(r.elem)
    IN  IF n < 4 THEN FALSE ELSE r.elem[n - 1] = "manifests"

\* isTags
isTags(r) ==
    LET n == Len(r.elem)
    IN  IF n < 4 THEN FALSE ELSE r.elem[n - 1] = "tags"

\* isCatalog
isCatalog(r) ==
    LET n == Len(r.elem)
    IN  IF n < 2 THEN FALSE ELSE r.elem[n] = "_catalog"

\* A handler that dereferences the nil manifest of a failed lookup panics;
\* net/http recovers the panic and closes the connection without a response.
Panicked == RegError(0, "", "panic")

\* manifests.handle, cases GET (withBody) and HEAD, after the backend has
\* returned got: errNotFound is the only error that is looked at.
ManifestsGetAnswer(st, got, withBody) ==
    IF got.err = "notfound" THEN Outcome(st, regErrManifestUnknown)
    ELSE IF got.err # "" THEN Outcome(st, Panicked)
    ELSE Outcome(st, [Response(200) EXCEPT
                        !.digest = DigestOf(got.mf.blob),
                        !.ctype = got.mf.contentType,
                        !.length = Len(got.mf.blob),
                        !.body = IF withBody THEN got.mf.blob ELSE <<>>])

\* manifests.handle, cases GET (withBody) and HEAD.
ManifestsGet(caps, st, repo, target, withBody) ==
    IF ~HasDigestPrefix(target) /\ "manifestTagGet" \notin caps
    THEN Outcome(st, regErrUnsupported)
    ELSE ManifestsGetAnswer(st,
                            IF HasDigestPrefix(target)
                            THEN GetManifestByDigest(st, repo, target)
                            ELSE GetManifestByTag(st, repo, target),
                            withBody)

\* A loop over im.Manifests that stops after its first descriptor.
CheckFirstChild(st, repo, descs) ==
    IF descs = <<>> THEN Response(0)
    ELSE LET desc == Head(descs)
         IN  IF IsDistributable(desc.mediaType)
                  /\ (IsIndex(desc.mediaType) \/ IsImage(desc.mediaType))
                  /\ desc.digest \notin DOMAIN Lookup(st.manifests, repo)
             THEN RegError(404, "MANIFEST_UNKNOWN",
                           "Sub-manifest \"" \o desc.digest \o "\" not found")
             ELSE Response(0)

RECURSIVE CheckChildren(_, _, _)
\* The loop over im.Manifests of manifests.handle, case PUT: the error
\* response of the first child that fails the check, or Response(0) when
\* every child passes.
CheckChildren(st, repo, descs) ==
    IF descs = <<>> THEN Response(0)
    ELSE LET desc == Head(descs)
         IN  IF ~IsDistributable(desc.mediaType) THEN CheckChildren(st, repo, Tail(descs))
             ELSE IF IsIndex(desc.mediaType) \/ IsImage(desc.mediaType)
             THEN LET got == GetManifestByDigest(st, repo, desc.digest)
                  IN  IF got.err = "notfound"
                      THEN RegError(404, "MANIFEST_UNKNOWN",
                                    "Sub-manifest \"" \o desc.digest \o "\" not found")
                      ELSE IF got.err # "" THEN regErrInternal(got.err)
                      ELSE CheckChildren(st, repo, Tail(descs))
             ELSE CheckChildren(st, repo, Tail(descs))

\* A PUT that stores the manifest under its digest and never under the target.
ManifestsTagNever(caps, st, repo, digest, target) == [err |-> "", st |-> st]

\* manifests.handle, case PUT: the tagging of the stored manifest.
ManifestsTag(caps, st, repo, digest, target) ==
    IF "manifestTag" \in caps
    THEN TagManifest(st, repo, digest, target)
    ELSE [err |-> "", st |-> st]

\* A PUT that leaves the store as it found it when it rejects an index.
ManifestsPutRollingBack(caps, st, r, repo, target) ==
    IF "manifestPut" \notin caps THEN Outcome(st, regErrUnsupported)
    ELSE LET digest == DigestOf(r.body)
             mf == Manifest(r.contentType, r.body)
             put == PutManifest(st, repo, digest, mf)
             im == ParseIndexManifest(r.body)
             child == CheckChildren(put.st, repo, im.manifests)
             tag == ManifestsTag(caps, put.st, repo, digest, target)
         IN  IF put.err = "notfound" THEN Outcome(put.st, regErrManifestUnknown)
             ELSE IF put.err # "" THEN Outcome(put.st, regErrInternal(put.err))
             ELSE IF IsIndex(mf.contentType) /\ im.err # ""
             THEN Outcome(st, RegError(400, "MANIFEST_INVALID", im.err))
             ELSE IF IsIndex(mf.contentType) /\ child.status # 0
             THEN Outcome(st, child)
             ELSE IF tag.err = "notfound" THEN Outcome(tag.st, regErrManifestUnknown)
             ELSE IF tag.err # "" THEN Outcome(tag.st, regErrInternal(tag.err))
             ELSE Outcome(tag.st, [Response(201) EXCEPT !.digest = digest])

\* manifests.handle, case PUT.
ManifestsPut(caps, st, r, repo, target) ==
    IF "manifestPut" \notin caps THEN Outcome(st, regErrUnsupported)
    ELSE LET digest == DigestOf(r.body)
             mf == Manifest(r.contentType, r.body)
             put == PutManifest(st, repo, digest, mf)
             im == ParseIndexManifest(r.body)
             child == CheckChildren(put.st, repo, im.manifests)
             tag == ManifestsTag(caps, put.st, repo, digest, target)
         IN  IF put.err = "notfound" THEN Outcome(put.st, regErrManifestUnknown)
             ELSE IF put.err # "" THEN Outcome(put.st, regErrInternal(put.err))
             ELSE IF IsIndex(mf.contentType) /\ im.err # ""
             THEN Outcome(put.st, RegError(400, "MANIFEST_INVALID", im.err))
             ELSE IF IsIndex(mf.contentType) /\ child.status # 0
             THEN Outcome(put.st, child)
             ELSE IF tag.err = "notfound" THEN Outcome(tag.st, regErrManifestUnknown)
             ELSE IF tag.err # "" THEN Outcome(tag.st, regErrInternal(tag.err))
             ELSE Outcome(tag.st, [Response(201) EXCEPT !.digest = digest])

\* A DELETE that calls DeleteManifest on a backend that was not asked
\* whether it deletes.
ManifestsDeleteUnasked(caps, st, repo, target) ==
    LET del == DeleteManifest(st, repo, target)
    IN  IF del.err = "notfound" THEN Outcome(st, regErrManifestUnknown)
        ELSE IF del.err # "" THEN Outcome(st, regErrInternal(del.err))
        ELSE Outcome(del.st, Response(202))

\* manifests.handle, case DELETE.
ManifestsDelete(caps, st, repo, target) ==
    IF "manifestDelete" \notin caps THEN Outcome(st, regErrUnsupported)
    ELSE LET del == DeleteManifest(st, repo, target)
         IN  IF del.err = "notfound" THEN Outcome(st, regErrManifestUnknown)
             ELSE IF del.err # "" THEN Outcome(st, regErrInternal(del.err))
             ELSE Outcome(del.st, Response(202))

\* manifests.handle
ManifestsHandle(caps, st, r) ==
    LET elem == r.elem
        n == Len(elem)
        target == elem[n]
        repo == Join(Slice(elem, 1, n - 2))
    IN  CASE r.method = "GET" -> ManifestsGet(caps, st, repo, target, TRUE)
          [] r.method = "HEAD" -> ManifestsGet(caps, st, repo, target, FALSE)
          [] r.method = "PUT" -> ManifestsPut(caps, st, r, repo, target)
          [] r.method = "DELETE" -> ManifestsDelete(caps, st, repo, target)
          [] OTHER -> Outcome(st, RegError(400, "METHOD_UNKNOWN",
                                           "We don't understand your method + url"))

\* The largest n a request of the model gives in its query.
MaxN == 3

\* strconv.Atoi with its error dropped: 0 when nStr is not a number.
Atoi(nStr) ==
    IF \E k \in 0..(MaxN + 1) : ToString(k) = nStr
    THEN CHOOSE k \in 0..(MaxN + 1) : ToString(k) = nStr
    ELSE 0

DefaultTagsN == 1000
DefaultCatalogN == 10000

\* manifests.handleTags: the outcomes the handler can produce.
HandleTags(caps, st, r) ==
    LET elem == r.elem
        repo == Join(Slice(elem, 1, Len(elem) - 2))
        n == IF r.n # "" THEN Atoi(r.n) ELSE DefaultTagsN
    IN  IF r.method # "GET"
        THEN {Outcome(st, RegError(400, "METHOD_UNKNOWN", "We don't understand your method + url"))}
        ELSE IF "manifestTagList" \notin caps THEN {Outcome(st, regErrUnsupported)}
        ELSE {IF l.err = "notfound" THEN Outcome(st, regErrUnknownName)
              ELSE IF l.err # "" THEN Outcome(st, regErrInternal(l.err))
              ELSE Outcome(st, [Response(200) EXCEPT !.name = repo, !.list = l.tags]) :
                 l \in ListTags(st, repo, n)}

\* manifests.handleCatalog: the outcomes the handler can produce.
HandleCatalog(caps, st, r) ==
    LET n == IF r.n # "" THEN Atoi(r.n) ELSE DefaultCatalogN
    IN  IF r.method # "GET"
        THEN {Outcome(st, RegError(400, "METHOD_UNKNOWN", "We don't understand your method + url"))}
        ELSE IF "catalog" \notin caps THEN {Outcome(st, regErrUnsupported)}
        ELSE {IF c.err # "" THEN Outcome(st, regErrInternal(c.err))
              ELSE Outcome(st, [Response(200) EXCEPT !.list = c.repos]) :
                 c \in Catalog(st, n)}

---------------------------------------------------------------------------
(* The router. *)

\* A router that answers the version probe to GET requests only.
v2ProbeByGet(caps, st, r, id) ==
    IF isBlob(r) THEN {BlobsHandle(caps, st, r, id)}
    ELSE IF isManifest(r) THEN {ManifestsHandle(caps, st, r)}
    ELSE IF isTags(r) THEN HandleTags(caps, st, r)
    ELSE IF isCatalog(r) THEN HandleCatalog(caps, st, r)
    ELSE IF r.method # "GET" \/ (r.elem # <<"v2", "">> /\ r.elem # <<"v2">>)
    THEN {Outcome(st, [RegError(404, "METHOD_UNKNOWN", "We don't understand your method + url")
                         EXCEPT !.version = "registry/2.0"])}
    ELSE {Outcome(st, [Response(200) EXCEPT !.version = "registry/2.0"])}

\* registry.v2: the outcomes of serving request r.
v2(caps, st, r, id) ==
    IF isBlob(r) THEN {BlobsHandle(caps, st, r, id)}
    ELSE IF isManifest(r) THEN {ManifestsHandle(caps, st, r)}
    ELSE IF isTags(r) THEN HandleTags(caps, st, r)
    ELSE IF isCatalog(r) THEN HandleCatalog(caps, st, r)
    ELSE IF r.elem # <<"v2", "">> /\ r.elem # <<"v2">>
    THEN {Outcome(st, [RegError(404, "METHOD_UNKNOWN", "We don't understand your method + url")
                         EXCEPT !.version = "registry/2.0"])}
    ELSE {Outcome(st, [Response(200) EXCEPT !.version = "registry/2.0"])}

---------------------------------------------------------------------------
(* The Storage-based registry: the blob handler over the Storage interface *)
(* and its in-memory implementation memStore.                              *)

\* The memStore of registry.New, and no response yet.
NewOlder == [blobs |-> EmptyMap, uploads |-> EmptyMap, resp |-> Response(0)]

\* memStore.GetBlob
memStoreGetBlob(ms, s) ==
    IF s \notin DOMAIN ms.blobs THEN [err |-> "not found", data |-> <<>>]
    ELSE [err |-> "", data |-> ms.blobs[s]]

\* memStore.PutBlob
memStorePutBlob(ms, s, b) == [ms EXCEPT !.blobs = MapSet(ms.blobs, s, b)]

\* memStore.AppendUpload
memStoreAppendUpload(ms, s, b) ==
    [ms EXCEPT !.uploads = MapSet(ms.uploads, s, Lookup(ms.uploads, s) \o b)]

\* memStore.DeleteUpload
memStoreDeleteUpload(ms, s) == [ms EXCEPT !.uploads = MapDelete(ms.uploads, s)]

\* memStore.UploadSize
memStoreUploadSize(ms, s) == Len(Lookup(ms.uploads, s))

\* blobs.handle of the Storage-based registry on memStore ms (whose methods
\* other than GetBlob return no error): the memStore afterwards, with the
\* response.  id is the value rand.Int63 returns.
StorageBlobsHandle(ms, r, id) ==
    LET elem == DropTrailingEmpty(r.elem)
        n == Len(elem)
        target == elem[n]
        service == elem[n - 1]
        d == DigestOf(r.body)
        accepted == [Response(204) EXCEPT
                       !.location = "/" \o Join(<<"v2", Join(Slice(elem, 1, n - 3)),
                                                  "blobs/uploads", target>>),
                       !.range = "0-" \o ToString(Len(r.body) - 1)]
        unknown == RegError(400, "METHOD_UNKNOWN", "We don't understand your method + url")
    IN  IF n < 4
        THEN [ms EXCEPT !.resp = RegError(400, "NAME_INVALID", "blobs must be attached to a repo")]
        ELSE CASE r.method \in {"HEAD", "GET"} ->
                    LET got == memStoreGetBlob(ms, target)
                    IN  IF got.err # "" THEN [ms EXCEPT !.resp = regErrBlobUnknown]
                        ELSE [ms EXCEPT !.resp =
                                [Response(200) EXCEPT
                                   !.length = Len(got.data), !.digest = target,
                                   !.body = IF r.method = "GET" THEN got.data ELSE <<>>]]
               [] r.method = "POST" /\ target = "uploads" ->
                    IF r.digest = ""
                    THEN [ms EXCEPT !.resp =
                            [Response(202) EXCEPT
                               !.location = "/" \o Join(<<"v2", Join(Slice(elem, 1, n - 2)),
                                                          "blobs/uploads", id>>),
                               !.range = "0-0"]]
                    ELSE IF d # r.digest THEN [ms EXCEPT !.resp = regErrDigestMismatch]
                    ELSE [memStorePutBlob(ms, d, r.body) EXCEPT
                            !.resp = [Response(201) EXCEPT !.digest = d]]
               [] r.method = "PATCH" /\ service = "uploads" ->
                    IF r.contentRange # ""
                    THEN LET scan == ScanRange(r.contentRange)
                         IN  IF scan.err # ""
                             THEN [ms EXCEPT !.resp =
                                     RegError(416, "BLOB_UPLOAD_UNKNOWN",
                                              "We don't understand your Content-Range")]
                             ELSE IF scan.start # memStoreUploadSize(ms, target)
                             THEN [ms EXCEPT !.resp =
                                     RegError(416, "BLOB_UPLOAD_UNKNOWN",
                                              "Your content range doesn't match what we have")]
                             ELSE [memStoreAppendUpload(ms, target, r.body) EXCEPT
                                     !.resp = accepted]
                    ELSE IF memStoreUploadSize(ms, target) > 0
                    THEN [ms EXCEPT !.resp =
                            RegError(400, "BLOB_UPLOAD_INVALID",
                                     "Stream uploads after first write are not allowed")]
                    ELSE [memStoreAppendUpload(ms, target, r.body) EXCEPT !.resp = accepted]
               [] r.method = "PUT" /\ service = "uploads" ->
                    IF r.digest = ""
                    THEN [ms EXCEPT !.resp =
                            RegError(400, "DIGEST_INVALID", "digest not specified")]
                    ELSE LET appended == memStoreAppendUpload(ms, target, r.body)
                         IN  IF d # r.digest
                             THEN [appended EXCEPT !.resp = regErrDigestMismatch]
                             ELSE [memStoreDeleteUpload(memStorePutBlob(appended, d, r.body),
                                                        target)
                                     EXCEPT !.resp = [Response(201) EXCEPT !.digest = d]]
               [] OTHER -> [ms EXCEPT !.resp = unknown]

---------------------------------------------------------------------------
(* The registry as a state machine. *)

\* The upload ids of the model: rand.Int63 is taken to return the values
\* "1", "2", ... in turn, each once.
IDs == {ToString(i) : i \in 1..MaxIDs}

\* Repository names, as path segments.
Repos == {<<"a">>, <<"m">>, <<"z">>}
BlobRepos == {<<"a">>, <<"m">>}

Tags == {"latest", "v1"}

\* The digests of every blob content.
ContentDigests == {DigestOf(b) : b \in Contents}

\* The digests an upload of content names: the content's own, or one of two
\* others.
ClaimedDigests(content) == {DigestOf(content), DigestOf(<<>>), DigestOf(<<1>>)}

\* The bodies of manifest PUTs: two bodies without descriptors and one that
\* lists one child, an image manifest whose digest is that of <<1>>.
ManifestBodies == {<<1>>, <<2>>, <<3>>}

\* The Content-Type header each body is PUT with: the body that lists a
\* child is an index.
ContentTypeOf(body) == IF DescriptorsOf(body) = <<>> THEN OCIManifestSchema1 ELSE OCIImageIndex

\* The targets manifest requests name: the tags and the digests of the bodies.
Targets == Tags \cup {DigestOf(b) : b \in ManifestBodies}

\* The n query parameters of listing requests: none, or a number.
Limits == {""} \cup {ToString(k) : k \in 0..MaxN}

ManifestDigests == {DigestOf(b) : b \in ManifestBodies}

NoRequest == Request("", <<>>, "", "", "", "", <<>>)

\* The clients whose requests are served concurrently, each by its own
\* handler goroutine.
Clients == {"c1", "c2"}

\* No library function has been called.
NoCall == [fn |-> "", args |-> <<>>, result |-> <<>>]

\* A client without a request in service.
NoFlight == [r |-> NoRequest, pos |-> "idle", resp |-> Response(0)]

Init ==
    /\ blobs = EmptyMap
    /\ uploads = EmptyMap
    /\ manifests = EmptyMap
    /\ nextID = 0
    /\ sent = [u \in IDs |-> <<>>]
    /\ session = [u \in IDs |-> "open"]
    /\ req = NoRequest
    /\ resp = Response(0)
    /\ flight = [c \in Clients |-> NoFlight]
    /\ call = NoCall
    /\ backend = MemCaps
    /\ older = NewOlder

\* The bytes held by all upload sessions.
RECURSIVE PendingBytes(_)
PendingBytes(u) ==
    IF DOMAIN u = {} THEN 0
    ELSE LET k == CHOOSE k \in DOMAIN u : TRUE
         IN  Len(u[k]) + PendingBytes(MapDelete(u, k))

\* The number of manifest keys stored.
RECURSIVE StoredKeys(_)
StoredKeys(m) ==
    IF DOMAIN m = {} THEN 0
    ELSE LET k == CHOOSE k \in DOMAIN m : TRUE
         IN  Cardinality(DOMAIN m[k]) + StoredKeys(MapDelete(m, k))

\* No request is being served.
Idle == req = NoRequest

\* registry.root calling v2 on request r with the storage backend: one of
\* the outcomes of v2 becomes the new state and the response.  Requests are
\* served one at a time: the next is taken once the response is written.
Serve(r, id) ==
    \E o \in v2(backend, State(blobs, uploads, manifests), r, id) :
        /\ blobs' = o.st.blobs
        /\ uploads' = o.st.uploads
        /\ manifests' = o.st.manifests
        /\ req' = r
        /\ resp' = o.resp
        /\ Cardinality(DOMAIN blobs') <= MaxBlobs
        /\ PendingBytes(uploads') <= MaxLen
        /\ StoredKeys(manifests') <= MaxKeys
        /\ UNCHANGED <<flight, call, backend, older>>

\* HEAD /v2/<repo>/blobs/<digest>
HeadBlob ==
    /\ Idle
    /\ \E repo \in BlobRepos, d \in ContentDigests :
        /\ Serve(Request("HEAD", <<"v2">> \o repo \o <<"blobs", d>>, "", "", "", "", <<>>), "")
        /\ UNCHANGED <<nextID, sent, session>>

\* GET /v2/<repo>/blobs/<digest>
GetBlob ==
    /\ Idle
    /\ \E repo \in BlobRepos, d \in ContentDigests :
        /\ Serve(Request("GET", <<"v2">> \o repo \o <<"blobs", d>>, "", "", "", "", <<>>), "")
        /\ UNCHANGED <<nextID, sent, session>>

\* POST /v2/<repo>/blobs/uploads/?digest=<d> with a body
PostBlob ==
    /\ Idle
    /\ \E repo \in BlobRepos, body \in Contents :
      \E d \in ClaimedDigests(body) :
        /\ Serve(Request("POST", <<"v2">> \o repo \o <<"blobs", "uploads", "">>,
                         d, "", "", "", body), "")
        /\ UNCHANGED <<nextID, sent, session>>

\* POST /v2/<repo>/blobs/uploads/
BeginUpload ==
    /\ Idle
    /\ \E repo \in BlobRepos :
        /\ nextID < MaxIDs
        /\ Serve(Request("POST", <<"v2">> \o repo \o <<"blobs", "uploads", "">>,
                         "", "", "", "", <<>>), ToString(nextID + 1))
        /\ nextID' = nextID + 1
        /\ UNCHANGED <<sent, session>>

\* The Content-Range headers of the model's PATCH requests: none, one that
\* is not a range, and <start>-<start + len(body) - 1> for every start.
ContentRanges(body) ==
    {"", "bytes"} \cup {RangeHeader(s, s + Len(body) - 1) : s \in 0..MaxLen}

\* PATCH /v2/<repo>/blobs/uploads/<id>
PatchUpload ==
    /\ Idle
    /\ \E repo \in BlobRepos, u \in IDs, body \in Contents :
        \E cr \in ContentRanges(body) :
            /\ PendingBytes(uploads) + Len(body) <= MaxLen
            /\ Serve(Request("PATCH", <<"v2">> \o repo \o <<"blobs", "uploads", u>>,
                             "", cr, "", "", body), "")
            /\ sent' = IF resp'.status = 204 /\ session[u] = "open"
                       THEN [sent EXCEPT ![u] = @ \o body] ELSE sent
            /\ UNCHANGED <<nextID, session>>

\* PUT /v2/<repo>/blobs/uploads/<id>?digest=<d>
PutUpload ==
    /\ Idle
    /\ \E repo \in BlobRepos, u \in IDs, body \in Contents :
      \E d \in ClaimedDigests(Lookup(uploads, u) \o body) \cup {""} :
        /\ Len(Lookup(uploads, u)) + Len(body) <= MaxLen
        /\ Serve(Request("PUT", <<"v2">> \o repo \o <<"blobs", "uploads", u>>,
                         d, "", "", "", body), "")
        /\ session' = [session EXCEPT ![u] =
                          IF resp'.status = 201 \/ @ = "finalized" THEN "finalized" ELSE "closed"]
        /\ sent' = [sent EXCEPT ![u] = <<>>]
        /\ UNCHANGED nextID

\* registry.root, after v2 has returned: the response (or the error
\* envelope) is written and logged, which ends the request.
Respond ==
    /\ req # NoRequest
    /\ req' = NoRequest
    /\ resp' = Response(0)
    /\ UNCHANGED <<blobs, uploads, manifests, nextID, sent, session, flight, call, backend, older>>

NextBlobs ==
    HeadBlob \/ GetBlob \/ PostBlob \/ BeginUpload \/ PatchUpload \/ PutUpload \/ Respond

\* The blob engine over the in-memory backend.
SpecBlobs == Init /\ [][NextBlobs]_vars

\* GET /v2/<repo>/manifests/<target>
GetManifest ==
    /\ Idle
    /\ \E repo \in Repos, target \in Targets :
        /\ Serve(Request("GET", <<"v2">> \o repo \o <<"manifests", target>>,
                         "", "", "", "", <<>>), "")
        /\ UNCHANGED <<nextID, sent, session>>

\* HEAD /v2/<repo>/manifests/<target>
HeadManifest ==
    /\ Idle
    /\ \E repo \in Repos, target \in Targets :
        /\ Serve(Request("HEAD", <<"v2">> \o repo \o <<"manifests", target>>,
                         "", "", "", "", <<>>), "")
        /\ UNCHANGED <<nextID, sent, session>>

\* PUT /v2/<repo>/manifests/<target>
PutManifestReq ==
    /\ Idle
    /\ \E repo \in Repos, target \in Targets, body \in ManifestBodies :
        /\ Serve(Request("PUT", <<"v2">> \o repo \o <<"manifests", target>>,
                         "", "", ContentTypeOf(body), "", body), "")
        /\ UNCHANGED <<nextID, sent, session>>

\* DELETE /v2/<repo>/manifests/<target>
DeleteManifestReq ==
    /\ Idle
    /\ \E repo \in Repos, target \in Targets :
        /\ Serve(Request("DELETE", <<"v2">> \o repo \o <<"manifests", target>>,
                         "", "", "", "", <<>>), "")
        /\ UNCHANGED <<nextID, sent, session>>

\* GET /v2/<repo>/tags/list?n=<n>
ListTagsReq ==
    /\ Idle
    /\ \E repo \in Repos, n \in Limits :
        /\ Serve(Request("GET", <<"v2">> \o repo \o <<"tags", "list">>,
                         "", "", "", n, <<>>), "")
        /\ UNCHANGED <<nextID, sent, session>>

\* GET /v2/_catalog?n=<n>
CatalogReq ==
    /\ Idle
    /\ \E n \in Limits :
        /\ Serve(Request("GET", <<"v2", "_catalog">>, "", "", "", n, <<>>), "")
        /\ UNCHANGED <<nextID, sent, session>>

NextManifests ==
    GetManifest \/ HeadManifest \/ PutManifestReq \/ DeleteManifestReq
        \/ ListTagsReq \/ CatalogReq \/ Respond

\* The manifest engine, tag listing and catalog over the in-memory backend.
SpecManifests == Init /\ [][NextManifests]_vars

---------------------------------------------------------------------------
(* Reading the request served last, and asking the handlers what a request *)
(* would be answered in a given state.                                     *)

Store == State(blobs, uploads, manifests)
StoreAfter == State(blobs', uploads', manifests')

\* The last path element of request r: a digest, an upload id or a target.
TargetOf(r) == r.elem[Len(r.elem)]

\* r is a monolithic upload: POST .../blobs/uploads/?digest=<d>.
IsMonolithicPost(r) == r.method = "POST" /\ isBlob(r) /\ r.digest # ""

\* r is a PATCH or PUT to .../blobs/uploads/<id>.
IsUploadRequest(r, method) ==
    /\ r.method = method
    /\ isBlob(r)
    /\ r.elem[Len(r.elem) - 1] = "uploads"

\* r is a PUT to .../manifests/<target>.
IsManifestPut(r) == r.method = "PUT" /\ isManifest(r)

\* The repository path segments of a manifest or tags request.
RepoOf(r) == Slice(r.elem, 1, Len(r.elem) - 2)

\* The response to GET (or HEAD) /v2/<repo>/blobs/<d> in state st.
BlobAnswer(st, method, repo, d) ==
    BlobsHandle(MemCaps, st,
                Request(method, <<"v2">> \o repo \o <<"blobs", d>>, "", "", "", "", <<>>),
                "").resp

\* The response to GET (or HEAD) /v2/<repo>/manifests/<target> in state st.
ManifestAnswer(st, method, repo, target) ==
    ManifestsHandle(MemCaps, st,
                    Request(method, <<"v2">> \o repo \o <<"manifests", target>>,
                            "", "", "", "", <<>>)).resp

\* The outcome of the monolithic POST of content under its own digest.
MonolithicUpload(st, repo, content) ==
    BlobsHandle(MemCaps, st,
                Request("POST", <<"v2">> \o repo \o <<"blobs", "uploads", "">>,
                        DigestOf(content), "", "", "", content),
                "")

---------------------------------------------------------------------------
(* C1: integrity enforcement. *)

\* C1 (as claimed): every upload whose total content does not hash to the
\* supplied digest is answered 400 DIGEST_INVALID, for a monolithic POST and
\* for a finalizing PUT over the accumulated chunks plus its body.
C1_MismatchIsDigestInvalid ==
    [][ /\ (IsMonolithicPost(req') /\ NewHash(req'.digest).err = ""
              /\ DigestOf(req'.body) # req'.digest)
            => (resp'.status = 400 /\ resp'.code = "DIGEST_INVALID")
        /\ (IsUploadRequest(req', "PUT") /\ NewHash(req'.digest).err = ""
              /\ DigestOf(Lookup(uploads, TargetOf(req')) \o req'.body) # req'.digest)
            => (resp'.status = 400 /\ resp'.code = "DIGEST_INVALID") ]_vars

---------------------------------------------------------------------------
(* C2: stored blobs are content-addressed. *)

\* Every entry of the blob store holds bytes whose digest is its key.
BlobsContentAddressed == \A d \in DOMAIN blobs : DigestOf(blobs[d]) = d

\* An upload (monolithic POST or finalizing PUT) that claimed digest d and
\* was not answered 201 leaves the answer to GET of d as it was.
FailedUploadKeepsBlobs ==
    ((IsMonolithicPost(req') \/ IsUploadRequest(req', "PUT"))
        /\ req'.digest # "" /\ resp'.status # 201)
        => BlobAnswer(StoreAfter, "GET", <<"a">>, req'.digest)
              = BlobAnswer(Store, "GET", <<"a">>, req'.digest)

\* C2: in every reachable state each stored blob's sha256 equals its key, and
\* after a failed upload that claimed digest d, GET of d returns what it
\* returned before (BLOB_UNKNOWN if d was absent).
C2_BlobStoreIntegrity == []BlobsContentAddressed /\ [][FailedUploadKeepsBlobs]_vars

\* A monolithic upload that claimed the digest of a stored blob with other
\* bytes has been refused.
C2_Witness ==
    /\ IsMonolithicPost(req)
    /\ resp.code = "DIGEST_INVALID"
    /\ req.digest \in DOMAIN blobs
    /\ blobs[req.digest] # req.body

---------------------------------------------------------------------------
(* C3: upload id consumption. *)

\* C3 (as claimed): after a finalizing PUT on upload id u has succeeded,
\* every later PATCH or PUT that references u is rejected as an unknown
\* upload.
C3_FinalizedIDIsUnknown ==
    [][ ((IsUploadRequest(req', "PATCH") \/ IsUploadRequest(req', "PUT"))
            /\ TargetOf(req') \in IDs
            /\ session[TargetOf(req')] = "finalized")
        => resp'.code = "BLOB_UPLOAD_UNKNOWN" ]_vars

---------------------------------------------------------------------------
(* C4: chunked equals monolithic. *)

\* C4: a finalizing PUT on an upload id that has only received PATCHes so
\* far, naming the digest of B = the accepted chunks in order followed by
\* the PUT's body, is answered 201 with that digest and leaves the blob
\* store as the monolithic POST of B leaves it, which is answered 201 too.
C4_ChunkedEqualsMonolithic ==
    [][ (IsUploadRequest(req', "PUT") /\ TargetOf(req') \in IDs
            /\ session[TargetOf(req')] = "open"
            /\ req'.digest = DigestOf(sent[TargetOf(req')] \o req'.body))
        => LET B == sent[TargetOf(req')] \o req'.body
               mono == MonolithicUpload(Store, <<"a">>, B)
           IN  /\ resp'.status = 201
               /\ resp'.digest = DigestOf(B)
               /\ mono.resp.status = 201
               /\ mono.resp.digest = resp'.digest
               /\ blobs' = mono.st.blobs
               /\ blobs'[DigestOf(B)] = B ]_vars

\* A chunked upload has been finalized whose content came in at least two
\* pieces: the stored blob is longer than the body of the PUT.
C4_Witness ==
    /\ IsUploadRequest(req, "PUT")
    /\ resp.status = 201
    /\ Len(blobs[resp.digest]) > Len(req.body)
    /\ Len(blobs[resp.digest]) = MaxLen

---------------------------------------------------------------------------
(* C5: blob round trip. *)

\* GET and HEAD of the digest of content answer 200 with that digest, the
\* length of content as Content-Length and, for GET, exactly content.
Retrievable(st, content) ==
    LET get == BlobAnswer(st, "GET", <<"a">>, DigestOf(content))
        head == BlobAnswer(st, "HEAD", <<"a">>, DigestOf(content))
    IN  /\ get.status = 200
        /\ get.body = content
        /\ get.digest = DigestOf(content)
        /\ get.length = Len(content)
        /\ head.status = 200
        /\ head.digest = DigestOf(content)
        /\ head.length = Len(content)

\* C5: once the monolithic POST of B under sha256(B) has returned 201, GET
\* of that digest returns 200 with body B, Docker-Content-Digest sha256(B)
\* and Content-Length len(B), then and after every later request.
C5_BlobRoundTrip ==
    /\ []((IsMonolithicPost(req) /\ resp.status = 201) => Retrievable(Store, req.body))
    /\ [][\A B \in {blobs[d] : d \in DOMAIN blobs} :
              Retrievable(Store, B) => Retrievable(StoreAfter, B)]_vars

\* A monolithic upload of non-empty content has been answered 201.
C5_Witness ==
    /\ IsMonolithicPost(req)
    /\ resp.status = 201
    /\ req.digest = DigestOf(req.body)
    /\ req.body # <<>>

---------------------------------------------------------------------------
(* C6: chunk contiguity. *)

\* C6: a PATCH with a well-formed Content-Range succeeds (204) exactly when
\* the range's start equals the number of bytes accumulated for the upload;
\* otherwise it is answered 416 BLOB_UPLOAD_UNKNOWN and the accumulated
\* bytes are unchanged.
C6_ChunkContiguity ==
    [][ (IsUploadRequest(req', "PATCH") /\ ScanRange(req'.contentRange).err = "")
        => LET u == TargetOf(req')
               start == ScanRange(req'.contentRange).start
               size == Len(Lookup(uploads, u))
           IN  /\ (resp'.status = 204) <=> (start = size)
               /\ start = size => Lookup(uploads', u) = Lookup(uploads, u) \o req'.body
               /\ start # size =>
                    /\ resp'.status = 416
                    /\ resp'.code = "BLOB_UPLOAD_UNKNOWN"
                    /\ uploads' = uploads ]_vars

\* A PATCH with a well-formed range that does not start at the end of the
\* bytes accumulated so far (of which there are some) has been refused.
C6_Witness ==
    /\ IsUploadRequest(req, "PATCH")
    /\ ScanRange(req.contentRange).err = ""
    /\ resp.status = 416
    /\ Lookup(uploads, TargetOf(req)) # <<>>

---------------------------------------------------------------------------
(* C7: manifests stored under a digest key. *)

\* C7 (as claimed): in every reachable state, for every repository and
\* every manifest key that is a digest ("sha256:" prefix), the sha256 of the
\* stored body equals that key.
C7_DigestKeysAddressContent ==
    \A repo \in DOMAIN manifests :
        \A k \in DOMAIN manifests[repo] :
            HasDigestPrefix(k) => DigestOf(manifests[repo][k].blob) = k

---------------------------------------------------------------------------
(* C8: tag and digest agree after a PUT by tag. *)

\* C8: right after PUT /v2/R/manifests/<tag> with body M is answered 201,
\* GET (and HEAD) by the tag and by sha256(M) both return 200 with the same
\* Content-Type, Content-Length and Docker-Content-Digest = sha256(M); the
\* GET bodies equal M and the HEAD bodies are empty.
C8_TagAndDigestAgree ==
    (IsManifestPut(req) /\ ~HasDigestPrefix(TargetOf(req)) /\ resp.status = 201)
    => LET R == Join(RepoOf(req))
           repo == RepoOf(req)
           M == req.body
           byTag == ManifestAnswer(Store, "GET", repo, TargetOf(req))
           byDigest == ManifestAnswer(Store, "GET", repo, DigestOf(M))
           headTag == ManifestAnswer(Store, "HEAD", repo, TargetOf(req))
           headDigest == ManifestAnswer(Store, "HEAD", repo, DigestOf(M))
       IN  /\ R \in DOMAIN manifests
           /\ \A a \in {byTag, byDigest, headTag, headDigest} :
                /\ a.status = 200
                /\ a.digest = DigestOf(M)
                /\ a.length = Len(M)
                /\ a.ctype = req.contentType
           /\ byTag.body = M
           /\ byDigest.body = M
           /\ headTag.body = <<>>
           /\ headDigest.body = <<>>
           /\ byTag = byDigest
           /\ headTag = headDigest

\* A manifest has been PUT by tag and accepted, replacing what the tag
\* pointed to before or not.
C8_Witness ==
    /\ IsManifestPut(req)
    /\ TargetOf(req) \in Tags
    /\ resp.status = 201
    /\ req.body # <<>>

---------------------------------------------------------------------------
(* C9: catalog listing. *)

\* The first k elements of sequence s (all of s when it is shorter).
FirstN(s, k) == SubSeq(s, 1, IF k < Len(s) THEN k ELSE Len(s))

\* The limit a listing request asks for: its n parameter, or the default.
LimitOf(r, default) == IF r.n = "" THEN default ELSE Atoi(r.n)

\* C9 (as claimed): GET /v2/_catalog?n=k answers the repositories sorted
\* lexicographically and truncated to the first k: of repositories z, a, m
\* and k = 2 the answer is [a, m].
C9_CatalogIsSortedPrefix ==
    (req.method = "GET" /\ isCatalog(req) /\ resp.status = 200)
    => resp.list = FirstN(SortStrings(DOMAIN manifests), LimitOf(req, DefaultCatalogN))

---------------------------------------------------------------------------
(* C10: tag listing. *)

\* The tags of repository R: its manifest keys that are not digests.
TagsOf(R) == {k \in DOMAIN manifests[R] : ~HasDigestPrefix(k)}

\* C10 (as claimed): GET /v2/R/tags/list?n=k for a known repository answers
\* the tags of R (never a digest key) sorted lexicographically and truncated
\* to the first k, so a repository with at least one tag and k >= 1 never
\* lists no tags.
C10_TagsAreSortedPrefix ==
    (req.method = "GET" /\ isTags(req) /\ resp.status = 200)
    => LET R == Join(RepoOf(req))
       IN  /\ resp.name = R
           /\ \A i \in DOMAIN resp.list : ~HasDigestPrefix(resp.list[i])
           /\ resp.list = FirstN(SortStrings(TagsOf(R)), LimitOf(req, DefaultTagsN))

---------------------------------------------------------------------------
(* Index manifests and their children. *)

\* The repositories of index PUTs.
IndexRepos == {<<"a">>, <<"m">>}

\* The bodies of image manifests that indexes reference.
ChildBodies == {<<1>>, <<2>>}

\* The bodies PUT as indexes: one that is not JSON; indexes with one child
\* of image, index, layer or foreign-layer media type; indexes with two
\* children.
IndexBodies ==
    {<<0>>, <<3>>, <<4>>, <<6>>, <<7>>, <<9>>, <<3, 4>>, <<9, 4>>, <<7, 3>>}

\* PUT /v2/<repo>/manifests/<digest> of an image manifest.
PutChildReq ==
    /\ Idle
    /\ \E repo \in IndexRepos, body \in ChildBodies :
        /\ Serve(Request("PUT", <<"v2">> \o repo \o <<"manifests", DigestOf(body)>>,
                         "", "", OCIManifestSchema1, "", body), "")
        /\ UNCHANGED <<nextID, sent, session>>

\* PUT /v2/<repo>/manifests/<digest> with Content-Type of an index.
PutIndexReq ==
    /\ Idle
    /\ \E repo \in IndexRepos, body \in IndexBodies :
        /\ Serve(Request("PUT", <<"v2">> \o repo \o <<"manifests", DigestOf(body)>>,
                         "", "", OCIImageIndex, "", body), "")
        /\ UNCHANGED <<nextID, sent, session>>

\* DELETE /v2/<repo>/manifests/<digest> of an image manifest.
DeleteChildReq ==
    /\ Idle
    /\ \E repo \in IndexRepos, body \in ChildBodies :
        /\ Serve(Request("DELETE", <<"v2">> \o repo \o <<"manifests", DigestOf(body)>>,
                         "", "", "", "", <<>>), "")
        /\ UNCHANGED <<nextID, sent, session>>

NextIndex == PutChildReq \/ PutIndexReq \/ DeleteChildReq \/ Respond

\* PUTs of indexes and of the manifests they reference.
SpecIndex == Init /\ [][NextIndex]_vars

\* r is a PUT of a manifest with the Content-Type of an index whose body
\* parses.
IsIndexPut(r) ==
    /\ IsManifestPut(r)
    /\ IsIndex(r.contentType)
    /\ ParseIndexManifest(r.body).err = ""

\* The digests of the children of an index body that are of distributable
\* image-manifest or index media type and are not stored as manifests of
\* repository R (a repository name, joined) in store st.
MissingChildren(st, R, body) ==
    LET descs == ParseIndexManifest(body).manifests
    IN  {descs[i].digest : i \in
            {j \in 1..Len(descs) :
                /\ IsDistributable(descs[j].mediaType)
                /\ IsIndex(descs[j].mediaType) \/ IsImage(descs[j].mediaType)
                /\ descs[j].digest \notin DOMAIN Lookup(st.manifests, R)}}

---------------------------------------------------------------------------
(* C11: index constituent check. *)

\* C11: a PUT of an index to repository R that lists a child of
\* distributable image-manifest or index media type whose digest is not
\* stored as a manifest in R is answered 404 MANIFEST_UNKNOWN with a message
\* that names the digest of such a child.
C11_MissingChildIsRefused ==
    [][ (IsIndexPut(req') /\ MissingChildren(Store, Join(RepoOf(req')), req'.body) # {})
        => /\ resp'.status = 404
           /\ resp'.code = "MANIFEST_UNKNOWN"
           /\ \E d \in MissingChildren(Store, Join(RepoOf(req')), req'.body) :
                 resp'.message = "Sub-manifest \"" \o d \o "\" not found" ]_vars

\* An index whose first child is stored in its repository and whose second
\* child is not has been refused.
C11_Witness ==
    /\ IsIndexPut(req)
    /\ Len(req.body) = 2
    /\ resp.status = 404
    /\ DescriptorOf(req.body[1]).digest \in DOMAIN Lookup(manifests, Join(RepoOf(req)))
    /\ DescriptorOf(req.body[2]).digest \notin DOMAIN Lookup(manifests, Join(RepoOf(req)))

---------------------------------------------------------------------------
(* C12: index acceptance condition. *)

\* C12: a PUT of a parseable index to repository R is answered 201 if and
\* only if every child of distributable image-manifest or index media type
\* is stored by digest in R at the time of the PUT; a child stored in
\* another repository only does not count, and children of other media
\* types are not checked.
C12_IndexAcceptedIffChildrenStored ==
    [][ IsIndexPut(req')
        => ((resp'.status = 201)
              <=> (MissingChildren(Store, Join(RepoOf(req')), req'.body) = {})) ]_vars

\* An index has been refused whose child is stored in another repository.
C12_Witness ==
    /\ IsIndexPut(req)
    /\ resp.status = 404
    /\ \E R \in DOMAIN manifests :
          /\ R # Join(RepoOf(req))
          /\ \E i \in 1..Len(req.body) :
                DescriptorOf(req.body[i]).digest \in DOMAIN manifests[R]

---------------------------------------------------------------------------
(* Concurrent manifest PUTs.  Each backend call of memHandler runs under the *)
(* handler's lock, so a handler is atomic from one backend call to the next. *)

\* The repository and the bodies of concurrent manifest PUTs.
SharedRepo == <<"a">>
SharedBodies == {<<1>>, <<2>>}

\* manifests.handle, case PUT, up to and including PutManifest.
PutManifestBegin ==
    \E c \in Clients, target \in Tags, body \in SharedBodies :
        LET r == Request("PUT", <<"v2">> \o SharedRepo \o <<"manifests", target>>,
                         "", "", ContentTypeOf(body), "", body)
            put == PutManifest(Store, Join(SharedRepo), DigestOf(body),
                               Manifest(r.contentType, body))
        IN  /\ flight[c].pos = "idle"
            /\ manifests' = put.st.manifests
            /\ StoredKeys(manifests') <= MaxKeys
            /\ flight' = [flight EXCEPT ![c] =
                   IF put.err = "notfound"
                   THEN [r |-> r, pos |-> "done", resp |-> regErrManifestUnknown]
                   ELSE IF put.err # ""
                   THEN [r |-> r, pos |-> "done", resp |-> regErrInternal(put.err)]
                   ELSE [r |-> r, pos |-> "check", resp |-> Response(0)]]
            /\ UNCHANGED <<blobs, uploads, nextID, sent, session, req, resp, call, backend, older>>

\* manifests.handle, case PUT: the check of an index's children.
PutManifestCheck ==
    \E c \in Clients :
        LET r == flight[c].r
            im == ParseIndexManifest(r.body)
            child == CheckChildren(Store, Join(RepoOf(r)), im.manifests)
        IN  /\ flight[c].pos = "check"
            /\ flight' = [flight EXCEPT ![c] =
                   IF IsIndex(r.contentType) /\ im.err # ""
                   THEN [@ EXCEPT !.pos = "done",
                                  !.resp = RegError(400, "MANIFEST_INVALID", im.err)]
                   ELSE IF IsIndex(r.contentType) /\ child.status # 0
                   THEN [@ EXCEPT !.pos = "done", !.resp = child]
                   ELSE [@ EXCEPT !.pos = "tag"]]
            /\ UNCHANGED <<blobs, uploads, manifests, nextID, sent, session, req, resp, call, backend, older>>

\* manifests.handle, case PUT: TagManifest and the response.
PutManifestTag ==
    \E c \in Clients :
        LET r == flight[c].r
            digest == DigestOf(r.body)
            tag == ManifestsTag(MemCaps, Store, Join(RepoOf(r)), digest, TargetOf(r))
        IN  /\ flight[c].pos = "tag"
            /\ manifests' = tag.st.manifests
            /\ StoredKeys(manifests') <= MaxKeys
            /\ flight' = [flight EXCEPT ![c] =
                   [@ EXCEPT !.pos = "done",
                             !.resp = IF tag.err = "notfound" THEN regErrManifestUnknown
                                      ELSE IF tag.err # "" THEN regErrInternal(tag.err)
                                      ELSE [Response(201) EXCEPT !.digest = digest]]]
            /\ UNCHANGED <<blobs, uploads, nextID, sent, session, req, resp, call, backend, older>>

\* registry.root for a concurrent client: the response is written, which
\* ends the request.
Return ==
    \E c \in Clients :
        /\ flight[c].pos = "done"
        /\ flight' = [flight EXCEPT ![c] = NoFlight]
        /\ UNCHANGED <<blobs, uploads, manifests, nextID, sent, session, req, resp, call, backend, older>>

\* GET /v2/a/manifests/<target> by a reader, beside the PUTs in service.
ReadManifest ==
    /\ Idle
    /\ \E target \in Targets :
        /\ Serve(Request("GET", <<"v2">> \o SharedRepo \o <<"manifests", target>>,
                         "", "", "", "", <<>>), "")
        /\ UNCHANGED <<nextID, sent, session>>

NextConcurrentManifests ==
    PutManifestBegin \/ PutManifestCheck \/ PutManifestTag \/ Return
        \/ ReadManifest \/ Respond

\* Manifest PUTs by concurrent clients and a reader.
SpecConcurrentManifests == Init /\ [][NextConcurrentManifests]_vars

---------------------------------------------------------------------------
(* C13: publication of a manifest's digest key and tag key. *)

\* C13 (as claimed): the digest key and the tag key written by one PUT by
\* tag become visible in a single step: whenever a step of a client's PUT of
\* M to tag t makes M newly retrievable by its digest, GET by t returns M
\* after that same step.
C13_AliasesPublishedTogether ==
    [][ \A c \in Clients :
          LET r == flight'[c].r
              repo == RepoOf(r)
              before == ManifestAnswer(Store, "GET", repo, DigestOf(r.body))
              after == ManifestAnswer(StoreAfter, "GET", repo, DigestOf(r.body))
              byTag == ManifestAnswer(StoreAfter, "GET", repo, TargetOf(r))
          IN  (/\ flight'[c] # flight[c]
               /\ IsManifestPut(r)
               /\ ~HasDigestPrefix(TargetOf(r))
               /\ after # before
               /\ after.status = 200
               /\ after.body = r.body)
              => (byTag.status = 200 /\ byTag.body = r.body) ]_vars

---------------------------------------------------------------------------
(* Concurrent blob uploads.  A PATCH handler calls StatUpload and then      *)
(* AppendUpload, each under the lock; the other handlers make one backend   *)
(* call that changes or reads the store.                                    *)

\* The upload session concurrent clients write to, and their PATCH bodies
\* and Content-Range headers.
SharedUpload == "1"
PatchBodies == {<<1>>, <<2>>}

\* The body of each client's PATCHes: the clients send different bytes, so
\* that the order of their bytes in the session tells who appended first.
PatchBodyOf(c) == IF c = "c1" THEN <<1>> ELSE <<2>>
PatchRanges == {"", RangeHeader(0, 0), RangeHeader(1, 1)}

\* blobs.handle, case PATCH, through StatUpload: the range check.
PatchBegin ==
    \E c \in Clients, cr \in PatchRanges :
        LET r == Request("PATCH",
                         <<"v2">> \o SharedRepo \o <<"blobs", "uploads", SharedUpload>>,
                         "", cr, "", "", PatchBodyOf(c))
            o == BlobsHandle(MemCaps, Store, r, "")
        IN  /\ flight[c].pos = "idle"
            /\ flight' = [flight EXCEPT ![c] =
                   IF o.resp.status = 204
                   THEN [r |-> r, pos |-> "append", resp |-> Response(0)]
                   ELSE [r |-> r, pos |-> "done", resp |-> o.resp]]
            /\ UNCHANGED <<blobs, uploads, manifests, nextID, sent, session, req, resp, call, backend, older>>

\* blobs.handle, case PATCH: AppendUpload and the response.
PatchAppend ==
    \E c \in Clients :
        LET r == flight[c].r
            u == TargetOf(r)
            app == AppendUpload(Store, u, r.body)
        IN  /\ flight[c].pos = "append"
            /\ uploads' = app.st.uploads
            /\ PendingBytes(uploads') <= MaxLen
            /\ flight' = [flight EXCEPT ![c] =
                   [@ EXCEPT !.pos = "done",
                             !.resp = IF app.err # "" THEN regErrInternal(app.err)
                                      ELSE PatchAccepted(r.elem, u, app.size)]]
            /\ sent' = IF session[u] = "open" THEN [sent EXCEPT ![u] = @ \o r.body] ELSE sent
            /\ UNCHANGED <<blobs, manifests, nextID, session, req, resp, call, backend, older>>

\* PUT /v2/a/blobs/uploads/1?digest=<d> with an empty body.
FinalizeReq ==
    /\ Idle
    /\ \E d \in ClaimedDigests(Lookup(uploads, SharedUpload)) :
        /\ Serve(Request("PUT",
                         <<"v2">> \o SharedRepo \o <<"blobs", "uploads", SharedUpload>>,
                         d, "", "", "", <<>>), "")
        /\ session' = [session EXCEPT ![SharedUpload] =
                          IF resp'.status = 201 \/ @ = "finalized" THEN "finalized" ELSE "closed"]
        /\ sent' = [sent EXCEPT ![SharedUpload] = <<>>]
        /\ UNCHANGED nextID

\* POST /v2/a/blobs/uploads/?digest=<d> with a one-byte body.
MonolithicReq ==
    /\ Idle
    /\ \E body \in PatchBodies :
      \E d \in ClaimedDigests(body) :
        /\ Serve(Request("POST", <<"v2">> \o SharedRepo \o <<"blobs", "uploads", "">>,
                         d, "", "", "", body), "")
        /\ UNCHANGED <<nextID, sent, session>>

\* GET or HEAD /v2/a/blobs/<digest> by a reader, beside the uploads in
\* service; the digest is that of the bytes the session holds, or one of
\* two others.
ReadBlob ==
    /\ Idle
    /\ \E method \in {"GET", "HEAD"}, d \in ClaimedDigests(Lookup(uploads, SharedUpload)) :
        /\ Serve(Request(method, <<"v2">> \o SharedRepo \o <<"blobs", d>>,
                         "", "", "", "", <<>>), "")
        /\ UNCHANGED <<nextID, sent, session>>

NextConcurrentBlobs ==
    PatchBegin \/ PatchAppend \/ Return \/ FinalizeReq \/ MonolithicReq
        \/ ReadBlob \/ Respond

\* Uploads by concurrent clients and a reader.
SpecConcurrentBlobs == Init /\ [][NextConcurrentBlobs]_vars

---------------------------------------------------------------------------
(* C14: atomic blob publication. *)

\* The step serves an upload that claims digest d, whose whole content (for
\* a finalizing PUT: the session's bytes followed by the body) hashes to d,
\* and answers it 201.
VerifiedUploadOf(d) ==
    /\ req' # req
    /\ req'.digest = d
    /\ resp'.status = 201
    /\ \/ IsMonolithicPost(req') /\ DigestOf(req'.body) = d
       \/ /\ IsUploadRequest(req', "PUT")
          /\ DigestOf(Lookup(uploads, TargetOf(req')) \o req'.body) = d

\* C14: under any interleaving of concurrent requests, HEAD or GET of digest
\* d stops being answered BLOB_UNKNOWN only in a step in which an upload
\* claiming d passes digest verification, and is then answered with bytes
\* that hash to d; the bytes of an unfinished or failing upload session are
\* never served.
C14_BlobPublishedWhenVerified ==
    [][ \A d \in ContentDigests, method \in {"GET", "HEAD"} :
          LET before == BlobAnswer(Store, method, SharedRepo, d)
              after == BlobAnswer(StoreAfter, method, SharedRepo, d)
          IN  (before.code = "BLOB_UNKNOWN" /\ after # before)
              => /\ VerifiedUploadOf(d)
                 /\ after.status = 200
                 /\ after.digest = d
                 /\ d \in DOMAIN blobs' /\ DigestOf(blobs'[d]) = d ]_vars

\* A reader has been answered BLOB_UNKNOWN for the digest of the bytes that
\* an upload session holds while a PATCH to the session is in service.
C14_Witness ==
    /\ req.method = "GET"
    /\ isBlob(req)
    /\ resp.code = "BLOB_UNKNOWN"
    /\ Lookup(uploads, SharedUpload) # <<>>
    /\ TargetOf(req) = DigestOf(Lookup(uploads, SharedUpload))
    /\ \E c \in Clients : flight[c].pos = "append"

---------------------------------------------------------------------------
(* C15: concurrent PATCHes. *)

\* C15: for any interleaving of PATCH requests on one upload id, in every
\* step that is not a finalizing PUT the bytes of each session only grow at
\* their end; a PATCH answered 204 has appended its whole body after all the
\* bytes the session held, and every other step of a PATCH (its range check,
\* passed or failed) leaves the sessions unchanged.
C15_PatchesAppendInOrder ==
    [][ /\ ~(req' # req /\ IsUploadRequest(req', "PUT"))
          => \A u \in DOMAIN uploads :
                /\ u \in DOMAIN uploads'
                /\ Len(uploads'[u]) >= Len(uploads[u])
                /\ SubSeq(uploads'[u], 1, Len(uploads[u])) = uploads[u]
        /\ \A c \in Clients :
             (flight'[c] # flight[c] /\ flight'[c].r.method = "PATCH")
             => LET r == flight'[c].r
                    u == TargetOf(r)
                IN  IF flight'[c].pos = "done" /\ flight'[c].resp.status = 204
                    THEN /\ uploads' = MapSet(uploads, u, Lookup(uploads, u) \o r.body)
                         /\ flight'[c].resp.range = "0-" \o ToString(Len(uploads'[u]) - 1)
                    ELSE uploads' = uploads ]_vars

\* Two PATCHes that both named the range 0-0 have both been answered 204:
\* both passed the range check on the empty session, and the second to
\* append did so after the bytes of the first.
C15_Witness ==
    /\ \A c \in Clients :
          /\ flight[c].pos = "done"
          /\ flight[c].resp.status = 204
          /\ flight[c].r.contentRange = RangeHeader(0, 0)
    /\ Len(Lookup(uploads, SharedUpload)) = 2

---------------------------------------------------------------------------
(* A backend that implements blobHandler (Get) and manifestHandler          *)
(* (GetManifestByDigest) and none of the extension interfaces.              *)

ReadOnlyCaps == {}

\* The content such a backend serves is there when the registry starts:
\* no blob or one, no manifest or one in repository a.
InitReadOnly ==
    /\ blobs \in {EmptyMap} \cup {MapSet(EmptyMap, DigestOf(b), b) : b \in PatchBodies}
    /\ manifests \in
         {EmptyMap} \cup
         {MapSet(EmptyMap, Join(SharedRepo),
                 MapSet(EmptyMap, DigestOf(b), Manifest(OCIManifestSchema1, b))) :
            b \in SharedBodies}
    /\ uploads = EmptyMap
    /\ nextID = 0
    /\ sent = [u \in IDs |-> <<>>]
    /\ session = [u \in IDs |-> "open"]
    /\ req = NoRequest
    /\ resp = Response(0)
    /\ flight = [c \in Clients |-> NoFlight]
    /\ call = NoCall
    /\ backend = ReadOnlyCaps
    /\ older = NewOlder

\* registry.root calling v2 on request r with the read-only backend.
ServeReadOnly(r) ==
    \E o \in v2(backend, Store, r, "1") :
        /\ blobs' = o.st.blobs
        /\ uploads' = o.st.uploads
        /\ manifests' = o.st.manifests
        /\ req' = r
        /\ resp' = o.resp
        /\ UNCHANGED <<nextID, sent, session, flight, call, backend, older>>

\* POST /v2/a/blobs/uploads/ with or without ?digest=<d>
ReadOnlyPost ==
    /\ Idle
    /\ \E body \in PatchBodies \cup {<<>>} :
          \E d \in ClaimedDigests(body) \cup {""} :
            ServeReadOnly(Request("POST", <<"v2">> \o SharedRepo \o <<"blobs", "uploads", "">>,
                                  d, "", "", "", body))

\* PATCH /v2/a/blobs/uploads/<id>
ReadOnlyPatch ==
    /\ Idle
    /\ \E u \in IDs, body \in PatchBodies, cr \in PatchRanges :
            ServeReadOnly(Request("PATCH", <<"v2">> \o SharedRepo \o <<"blobs", "uploads", u>>,
                                  "", cr, "", "", body))

\* PUT /v2/a/blobs/uploads/<id>?digest=<d>
ReadOnlyPut ==
    /\ Idle
    /\ \E u \in IDs, body \in PatchBodies \cup {<<>>} :
          \E d \in ClaimedDigests(body) :
            ServeReadOnly(Request("PUT", <<"v2">> \o SharedRepo \o <<"blobs", "uploads", u>>,
                                  d, "", "", "", body))

\* PUT /v2/a/manifests/<target>
ReadOnlyPutManifest ==
    /\ Idle
    /\ \E target \in Targets, body \in ManifestBodies :
            ServeReadOnly(Request("PUT", <<"v2">> \o SharedRepo \o <<"manifests", target>>,
                                  "", "", ContentTypeOf(body), "", body))

\* DELETE /v2/a/manifests/<target>
ReadOnlyDeleteManifest ==
    /\ Idle
    /\ \E target \in Targets :
            ServeReadOnly(Request("DELETE", <<"v2">> \o SharedRepo \o <<"manifests", target>>,
                                  "", "", "", "", <<>>))

\* GET /v2/a/blobs/<digest> and GET /v2/a/manifests/<digest>
ReadOnlyGet ==
    /\ Idle
    /\ \E service \in {"blobs", "manifests"}, body \in PatchBodies :
            ServeReadOnly(Request("GET", <<"v2">> \o SharedRepo \o <<service, DigestOf(body)>>,
                                  "", "", "", "", <<>>))

NextReadOnly ==
    ReadOnlyPost \/ ReadOnlyPatch \/ ReadOnlyPut \/ ReadOnlyPutManifest
        \/ ReadOnlyDeleteManifest \/ ReadOnlyGet \/ Respond

\* The registry over a backend without extension interfaces.
SpecReadOnly == InitReadOnly /\ [][NextReadOnly]_vars

---------------------------------------------------------------------------
(* C16: the unsupported surface. *)

\* r is a write-class request: a POST to .../blobs/uploads/, a PATCH or PUT
\* to .../blobs/uploads/<id>, or a PUT or DELETE of a manifest.
IsWriteClass(r) ==
    \/ r.method = "POST" /\ isBlob(r) /\ DropTrailingEmpty(r.elem)[Len(DropTrailingEmpty(r.elem))] = "uploads"
    \/ IsUploadRequest(r, "PATCH")
    \/ IsUploadRequest(r, "PUT")
    \/ r.method \in {"PUT", "DELETE"} /\ isManifest(r)

\* C16: against a backend that implements only blob Get and
\* GetManifestByDigest, every write-class request is answered UNSUPPORTED
\* and changes neither blobs, uploads nor manifests.
C16_WritesUnsupported ==
    [][ (req' # req /\ IsWriteClass(req'))
        => /\ resp'.code = "UNSUPPORTED"
           /\ resp'.status = 404
           /\ StoreAfter = Store ]_vars

\* The DELETE of a manifest that the backend serves has been refused.
C16_Witness ==
    /\ req.method = "DELETE"
    /\ isManifest(req)
    /\ resp.code = "UNSUPPORTED"
    /\ TargetOf(req) \in DOMAIN Lookup(manifests, Join(RepoOf(req)))

---------------------------------------------------------------------------
(* Blob uploads, manifest PUTs and the catalog side by side. *)

\* PATCH /v2/a/blobs/uploads/1
PatchReq ==
    /\ Idle
    /\ \E body \in PatchBodies, cr \in PatchRanges :
        /\ PendingBytes(uploads) + Len(body) <= MaxLen
        /\ Serve(Request("PATCH",
                         <<"v2">> \o SharedRepo \o <<"blobs", "uploads", SharedUpload>>,
                         "", cr, "", "", body), "")
        /\ sent' = IF resp'.status = 204 /\ session[SharedUpload] = "open"
                   THEN [sent EXCEPT ![SharedUpload] = @ \o body] ELSE sent
        /\ UNCHANGED <<nextID, session>>

\* PUT /v2/<repo>/manifests/latest
PutTagReq ==
    /\ Idle
    /\ \E repo \in IndexRepos, body \in SharedBodies :
        /\ Serve(Request("PUT", <<"v2">> \o repo \o <<"manifests", "latest">>,
                         "", "", ContentTypeOf(body), "", body), "")
        /\ UNCHANGED <<nextID, sent, session>>

\* GET /v2/_catalog
CatalogAllReq ==
    /\ Idle
    /\ Serve(Request("GET", <<"v2", "_catalog">>, "", "", "", "", <<>>), "")
    /\ UNCHANGED <<nextID, sent, session>>

NextRegistry ==
    MonolithicReq \/ PatchReq \/ FinalizeReq \/ ReadBlob \/ PutTagReq
        \/ CatalogAllReq \/ Respond

\* The registry serving blob, upload, manifest and catalog requests.
SpecRegistry == Init /\ [][NextRegistry]_vars

---------------------------------------------------------------------------
(* C17: repository creation. *)

\* The repositories that GET /v2/_catalog without n lists in store st.
Listed(st) ==
    {R \in DOMAIN st.manifests :
        \A o \in v2(MemCaps, st, Request("GET", <<"v2", "_catalog">>, "", "", "", "", <<>>), "") :
            \E i \in DOMAIN o.resp.list : o.resp.list[i] = R}

\* The step serves a write to repository R that succeeds: a monolithic POST
\* or a finalizing PUT of a blob upload, or a manifest PUT, answered 201.
SuccessfulWriteTo(R) ==
    /\ req' # req
    /\ resp'.status = 201
    /\ \/ IsMonolithicPost(req') /\ R = Join(Slice(req'.elem, 1, Len(req'.elem) - 3))
       \/ IsUploadRequest(req', "PUT") /\ R = Join(Slice(req'.elem, 1, Len(req'.elem) - 3))
       \/ IsManifestPut(req') /\ R = Join(RepoOf(req'))

\* C17 (as claimed): a repository is listed by the catalog from its first
\* successful write on, be it a blob upload or a manifest PUT, and it is not
\* listed while no write to it has succeeded: a step that writes to R with
\* success leaves R listed, a listed repository stays listed, and a
\* repository becomes listed only by a successful write to it.
C17_ListedFromFirstWrite ==
    [][ \A R \in {Join(repo) : repo \in IndexRepos} :
          /\ SuccessfulWriteTo(R) => R \in Listed(StoreAfter)
          /\ R \in Listed(Store) => R \in Listed(StoreAfter)
          /\ (R \notin Listed(Store) /\ R \in Listed(StoreAfter)) => SuccessfulWriteTo(R) ]_vars

---------------------------------------------------------------------------
(* C18: blob immutability. *)

\* C18: once GET of digest d has returned 200 with bytes B, every later GET
\* of d returns 200 with the same B: no step of a blob, upload, manifest or
\* catalog request changes the answer to a GET that is answered 200.
C18_BlobsImmutable ==
    [][ \A d \in ContentDigests :
          LET before == BlobAnswer(Store, "GET", SharedRepo, d)
          IN  before.status = 200
              => /\ BlobAnswer(StoreAfter, "GET", SharedRepo, d) = before
                 /\ before.body = blobs[d] ]_vars

\* A stored blob has been served after an upload was finalized and a
\* manifest was PUT.
C18_Witness ==
    /\ req.method = "GET"
    /\ isBlob(req)
    /\ resp.status = 200
    /\ resp.body # <<>>
    /\ resp.body = blobs[TargetOf(req)]
    /\ session[SharedUpload] = "finalized"
    /\ manifests # EmptyMap

---------------------------------------------------------------------------
(* Routing of arbitrary paths. *)

Methods == {"GET", "HEAD", "POST", "PUT", "PATCH", "DELETE"}

\* The path segments of routed requests; paths have one to four of them
\* (the empty segment is what a doubled or trailing "/" splits into).
Segments ==
    {"v2", "a", "blobs", "uploads", "manifests", "tags", "list", "_catalog", "",
     DigestOf(<<1>>)}
MaxSegments == 4
Paths == SeqsUpTo(Segments, MaxSegments) \ {<<>>}

\* The paths of the version probe: /v2 and /v2/.
ProbePaths == {<<"v2">>, <<"v2", "">>}

\* A request of a method that stores nothing new (GET, HEAD, POST without
\* digest, DELETE), to any path.
RouteReq ==
    /\ Idle
    /\ \E method \in Methods \ {"PUT", "PATCH"}, path \in Paths :
        /\ Serve(Request(method, path, "", "", "", "", <<>>), "1")
        /\ UNCHANGED <<nextID, sent, session>>

\* A request of any method to /v2 or /v2/.
ProbeReq ==
    /\ Idle
    /\ \E method \in Methods, path \in ProbePaths :
        /\ Serve(Request(method, path, "", "", "", "", <<>>), "1")
        /\ UNCHANGED <<nextID, sent, session>>

NextRouter == RouteReq \/ ProbeReq \/ PutTagReq \/ Respond

\* The router over the in-memory backend.
SpecRouter == Init /\ [][NextRouter]_vars

---------------------------------------------------------------------------
(* C19: router fall-through. *)

\* elem is one of the paths the registry serves: /v2, /v2/,
\* .../blobs/uploads[/...], .../blobs/<digest>, .../manifests/<target>,
\* .../tags/list, .../_catalog.  <digest> and <target> stand for any
\* segment, and a trailing "/" on a blob path is ignored as isBlob does.
IsServedPath(elem) ==
    LET n == Len(elem)
        b == DropTrailingEmpty(elem)
        k == Len(b)
    IN  \/ elem \in ProbePaths
        \/ k >= 2 /\ b[k - 1] = "blobs"
        \/ k >= 3 /\ b[k - 2] = "blobs" /\ b[k - 1] = "uploads"
        \/ n >= 2 /\ elem[n - 1] = "manifests"
        \/ n >= 2 /\ elem[n - 1] = "tags" /\ elem[n] = "list"
        \/ elem[n] = "_catalog"

\* C19 (as claimed): every request whose path is none of the served paths
\* is answered 404 METHOD_UNKNOWN; only paths ending in /tags/list reach the
\* tag listing and only well-formed blob paths reach the blob engine.
C19_OtherPathsAreUnknown ==
    (req # NoRequest /\ ~IsServedPath(req.elem))
    => (resp.status = 404 /\ resp.code = "METHOD_UNKNOWN")

---------------------------------------------------------------------------
(* C20: the version probe. *)

\* C20: a request to /v2 or /v2/, of any method, is answered 200 with
\* Docker-Distribution-API-Version: registry/2.0 and nothing else, and
\* changes nothing: it reaches none of the blob, manifest, tags and catalog
\* handlers.
C20_ProbeAnswered ==
    [][ (req' # req /\ req'.elem \in ProbePaths)
        => /\ resp' = [Response(200) EXCEPT !.version = "registry/2.0"]
           /\ ~isBlob(req') /\ ~isManifest(req') /\ ~isTags(req') /\ ~isCatalog(req')
           /\ StoreAfter = Store ]_vars

\* DELETE /v2/ has been answered 200 by a registry that stores a manifest.
C20_Witness ==
    /\ req.elem = <<"v2", "">>
    /\ req.method = "DELETE"
    /\ resp.status = 200
    /\ resp.version = "registry/2.0"
    /\ manifests # EmptyMap

---------------------------------------------------------------------------
(* Deleting manifests. *)

\* The targets of manifest DELETEs and GETs: two tags and the digests of
\* the bodies that are PUT.
DeleteTargets == {"latest", "v1"} \cup {DigestOf(b) : b \in SharedBodies}

\* DELETE /v2/<repo>/manifests/<target>
DeleteTargetReq ==
    /\ Idle
    /\ \E repo \in IndexRepos, target \in DeleteTargets :
        /\ Serve(Request("DELETE", <<"v2">> \o repo \o <<"manifests", target>>,
                         "", "", "", "", <<>>), "")
        /\ UNCHANGED <<nextID, sent, session>>

\* GET /v2/<repo>/manifests/<target>
GetTargetReq ==
    /\ Idle
    /\ \E repo \in IndexRepos, target \in DeleteTargets :
        /\ Serve(Request("GET", <<"v2">> \o repo \o <<"manifests", target>>,
                         "", "", "", "", <<>>), "")
        /\ UNCHANGED <<nextID, sent, session>>

NextDelete == PutTagReq \/ DeleteTargetReq \/ GetTargetReq \/ Respond

\* Manifest PUTs, DELETEs and GETs over the in-memory backend.
SpecDelete == Init /\ [][NextDelete]_vars

---------------------------------------------------------------------------
(* C21: manifest DELETE. *)

\* C21: DELETE /v2/R/manifests/<target> is answered 202 when the target
\* (tag or digest) is stored in R, and GET of the target is then answered
\* 404 MANIFEST_UNKNOWN; when the target is absent the DELETE is answered
\* 404 MANIFEST_UNKNOWN and the manifest store is unchanged.
C21_DeleteRemovesTarget ==
    [][ (req' # req /\ req'.method = "DELETE" /\ isManifest(req'))
        => LET R == RepoOf(req')
               t == TargetOf(req')
           IN  IF t \in DOMAIN Lookup(manifests, Join(R))
               THEN /\ resp' = Response(202)
                    /\ ManifestAnswer(StoreAfter, "GET", R, t) = regErrManifestUnknown
                    /\ ManifestAnswer(StoreAfter, "HEAD", R, t) = regErrManifestUnknown
               ELSE /\ resp' = regErrManifestUnknown
                    /\ manifests' = manifests ]_vars

\* A stored tag has been deleted, and so has a stored digest, each with 202.
C21_Witness ==
    /\ req.method = "DELETE"
    /\ resp.status = 202
    /\ HasDigestPrefix(TargetOf(req))
    /\ \E R \in DOMAIN manifests : "latest" \in DOMAIN manifests[R]

---------------------------------------------------------------------------
(* mutate.ExtractFile: reading one file out of an image. *)

\* The largest number of layers of an image, and of entries of a layer.
MaxLayers == 3
MaxEntries == 2

\* The paths ExtractFile is asked for.
FilePaths == {"f", "g"}

\* The whiteout entry of a path.
Whiteout(path) == ".wh." \o path

\* The entries of layer archives: a file with its contents, or the empty
\* whiteout entry of "f".
TarEntries ==
    [name : FilePaths, contents : {<<>>, <<"h">>}]
        \cup {[name |-> Whiteout("f"), contents |-> <<>>]}

\* mustLayer: a layer whose archive holds the one entry path.
mustLayer(path, contents) == <<[name |-> path, contents |-> contents]>>

\* The layers of the model: those of mustLayer, and layers of several
\* entries for different paths.
LayerSet ==
    {l \in SeqsUpTo(TarEntries, MaxEntries) :
        /\ l # <<>>
        /\ \A i, j \in 1..Len(l) :
             i # j => /\ l[i].name # l[j].name
                      /\ l[i].name # Whiteout(l[j].name)}

\* The archive of a layer as tar.Reader consumes it: per entry a header,
\* then the bytes of the contents (padded to the block boundary), and the
\* end-of-archive marker.
RECURSIVE TarStream(_)
TarStream(layer) ==
    IF layer = <<>> THEN <<[k |-> "end", v |-> ""]>>
    ELSE LET e == Head(layer)
         IN  <<[k |-> "hdr", v |-> e.name]>>
                 \o [i \in 1..Len(e.contents) |-> [k |-> "byte", v |-> e.contents[i]]]
                 \o (IF e.contents = <<>> THEN <<>> ELSE <<[k |-> "pad", v |-> ""]>>)
                 \o TarStream(Tail(layer))

\* The position of the next header in stream at or after position i, or 0
\* at the end of the archive: tar.Reader.Next.
RECURSIVE NextHeader(_, _)
NextHeader(stream, i) ==
    IF i > Len(stream) \/ stream[i].k = "end" THEN 0
    ELSE IF stream[i].k = "hdr" THEN i
    ELSE NextHeader(stream, i + 1)

ErrNotExist == "path does not exist"

\* The inner loop of ExtractFile over the archive of one layer, from
\* position i: rc once the header of path has been read, ErrNotExist at the
\* whiteout of path, "EOF" at the end of the archive.
RECURSIVE ScanLayer(_, _, _)
ScanLayer(stream, i, path) ==
    LET h == NextHeader(stream, i)
    IN  IF h = 0 THEN [err |-> "EOF", rc |-> <<>>]
        ELSE IF stream[h].v = path
        THEN [err |-> "", rc |-> SubSeq(stream, h + 1, Len(stream))]
        ELSE IF stream[h].v = Whiteout(path)
        THEN [err |-> ErrNotExist, rc |-> <<>>]
        ELSE ScanLayer(stream, h + 1, path)

\* mutate.ExtractFile on the layers of img, base layer first.
RECURSIVE ExtractFile(_, _)
ExtractFile(layers, path) ==
    IF layers = <<>> THEN [err |-> ErrNotExist, rc |-> <<>>]
    ELSE LET got == ScanLayer(TarStream(Head(layers)), 1, path)
         IN  IF got.err = "EOF" THEN ExtractFile(Tail(layers), path) ELSE got

\* empty.Image
EmptyImage == <<>>

\* mutate.AppendLayers: the layers of base, then layer on top.
AppendLayers(base, layer) == Append(base, layer)

\* The image of the last call that returned one.
ImageOf(c) ==
    IF c.fn = "AppendLayers" THEN c.result
    ELSE IF c.fn = "ExtractFile" THEN c.args[1]
    ELSE EmptyImage

\* base, err = AppendLayers(base, layer)
AppendLayersCall ==
    /\ Len(ImageOf(call)) < MaxLayers
    /\ \E layer \in LayerSet :
        call' = [fn |-> "AppendLayers", args |-> <<ImageOf(call), layer>>,
                 result |-> AppendLayers(ImageOf(call), layer)]
    /\ UNCHANGED <<blobs, uploads, manifests, nextID, sent, session, req, resp, flight, backend, older>>

\* rc, err := ExtractFile(img, path)
ExtractFileCall ==
    /\ call.fn = "AppendLayers"
    /\ \E path \in FilePaths :
        call' = [fn |-> "ExtractFile", args |-> <<ImageOf(call), path>>,
                 result |-> ExtractFile(ImageOf(call), path)]
    /\ UNCHANGED <<blobs, uploads, manifests, nextID, sent, session, req, resp, flight, backend, older>>

NextMutate == AppendLayersCall \/ ExtractFileCall

\* Images built layer by layer, and files extracted from them.
SpecMutate == Init /\ [][NextMutate]_vars

---------------------------------------------------------------------------
(* C22: ExtractFile and whiteouts. *)

\* Layer l holds an entry named name.
Holds(l, name) == \E i \in 1..Len(l) : l[i].name = name

\* The contents of the entries named path in those layers of img after which
\* no layer holds the whiteout of path.
VisibleContents(img, path) ==
    {img[p[1]][p[2]].contents :
        p \in {p \in (1..Len(img)) \X (1..MaxEntries) :
                 /\ p[2] <= Len(img[p[1]])
                 /\ img[p[1]][p[2]].name = path
                 /\ \A j \in (p[1] + 1)..Len(img) : ~Holds(img[j], Whiteout(path))}}

\* What reading rc gives up to the end of the entry's contents.
RECURSIVE FileRead(_)
FileRead(rc) ==
    IF rc = <<>> \/ Head(rc).k # "byte" THEN <<>>
    ELSE <<Head(rc).v>> \o FileRead(Tail(rc))

\* C22 (as claimed): ExtractFile(img, path) returns the contents of path
\* when some layer holds the file and no layer appended after that layer
\* holds the whiteout .wh.<path>; otherwise (path in no layer, or every
\* layer that holds it is followed by a layer with the whiteout) it returns
\* ErrNotExist.
C22_ExtractHonoursWhiteouts ==
    call.fn = "ExtractFile"
    => LET img == call.args[1]
           path == call.args[2]
           got == call.result
       IN  IF VisibleContents(img, path) # {}
           THEN got.err = "" /\ FileRead(got.rc) \in VisibleContents(img, path)
           ELSE got.err = ErrNotExist

---------------------------------------------------------------------------
(* v1.Descriptor.GetData: data inlined in a descriptor. *)

\* The largest number of characters of a descriptor's Data.
MaxData == 2

\* The characters of Data: "A" and "B" are characters of the base64
\* alphabet, "!" is not.
DataChars == {"A", "B", "!"}

\* The byte a character of the base64 alphabet decodes to, 0 for a
\* character outside the alphabet.
DecodeChar(c) == IF c = "A" THEN 1 ELSE IF c = "B" THEN 2 ELSE 0

\* base64.StdEncoding.DecodeString: the bytes, or an error when a character
\* is not of the alphabet.
StdDecode(data) ==
    IF \E i \in 1..Len(data) : DecodeChar(data[i]) = 0
    THEN [err |-> "illegal base64 data", b |-> <<>>]
    ELSE [err |-> "", b |-> [i \in 1..Len(data) |-> DecodeChar(data[i])]]

\* v1.SHA256(r).Hex
HexOf(b) == ToString(Sha256(b))

ErrNoData == "descriptor does not define inline data"

\* A GetData that compares the digest before the size.
GetDataDigestFirst(d) ==
    LET dec == StdDecode(d.data)
    IN  IF d.data = <<>> THEN [err |-> ErrNoData, b |-> <<>>]
        ELSE IF d.digest.algorithm # "sha256"
        THEN [err |-> "unknown hash algorithm", b |-> <<>>]
        ELSE IF dec.err # "" THEN [err |-> "base64 decoding", b |-> <<>>]
        ELSE IF HexOf(dec.b) # d.digest.hex
        THEN [err |-> "mismatched digest", b |-> <<>>]
        ELSE IF Len(dec.b) # d.size THEN [err |-> "mismatched size", b |-> <<>>]
        ELSE [err |-> "", b |-> dec.b]

\* Descriptor.GetData
GetData(d) ==
    LET dec == StdDecode(d.data)
    IN  IF d.data = <<>> THEN [err |-> ErrNoData, b |-> <<>>]
        ELSE IF d.digest.algorithm # "sha256"
        THEN [err |-> "unknown hash algorithm", b |-> <<>>]
        ELSE IF dec.err # "" THEN [err |-> "base64 decoding", b |-> <<>>]
        ELSE IF Len(dec.b) # d.size THEN [err |-> "mismatched size", b |-> <<>>]
        ELSE IF HexOf(dec.b) # d.digest.hex
        THEN [err |-> "mismatched digest", b |-> <<>>]
        ELSE [err |-> "", b |-> dec.b]

\* The descriptors GetData is called on: any Data, a Size up to one more
\* than the data can decode to, and the digest of some byte string under
\* one of two algorithms.
Descriptors ==
    [data : SeqsUpTo(DataChars, MaxData),
     size : 0..(MaxData + 1),
     digest : [algorithm : {"sha256", "sha512"},
               hex : {HexOf(b) : b \in SeqsUpTo(BlobByte, MaxData)}]]

\* got, err := c.d.GetData(), once per descriptor.
GetDataCall ==
    /\ call = NoCall
    /\ \E d \in Descriptors :
        call' = [fn |-> "GetData", args |-> <<d>>, result |-> GetData(d)]
    /\ UNCHANGED <<blobs, uploads, manifests, nextID, sent, session, req, resp, flight, backend, older>>

NextDescriptor == GetDataCall

\* GetData called on descriptors of every kind.
SpecDescriptor == Init /\ [][NextDescriptor]_vars

---------------------------------------------------------------------------
(* C23: GetData verifies the inlined data. *)

\* C23: GetData returns ErrNoData when Data is empty; otherwise it returns
\* bytes only when they are the decoded Data, their number is Size and
\* their sha256 is Digest.Hex; a decodable sha256 descriptor of the wrong
\* size reports the size mismatch whatever its digest; and an error never
\* comes with bytes.
C23_GetDataVerifies ==
    call.fn = "GetData"
    => LET d == call.args[1]
           got == call.result
           dec == StdDecode(d.data)
       IN  /\ d.data = <<>> => got.err = ErrNoData
           /\ (d.data # <<>> /\ got.err = "")
                => /\ dec.err = ""
                   /\ got.b = dec.b
                   /\ Len(got.b) = d.size
                   /\ HexOf(got.b) = d.digest.hex
           /\ (d.data # <<>> /\ d.digest.algorithm = "sha256"
                 /\ dec.err = "" /\ Len(dec.b) # d.size)
                => got.err = "mismatched size"
           /\ got.err # "" => got.b = <<>>

\* GetData has reported the size mismatch of a descriptor whose size and
\* digest are both wrong.
C23_Witness ==
    /\ call.fn = "GetData"
    /\ call.result.err = "mismatched size"
    /\ HexOf(StdDecode(call.args[1].data).b) # call.args[1].digest.hex

---------------------------------------------------------------------------
(* C24: upload ids that no begin-upload POST returned. *)

\* The upload ids returned so far by begin-upload POSTs.
IssuedIDs == {ToString(i) : i \in 1..nextID}

\* C24 (as claimed): a PATCH or PUT to .../blobs/uploads/<id> whose id no
\* begin-upload POST has returned is answered BLOB_UPLOAD_UNKNOWN and
\* creates neither upload state nor a blob.
C24_UnknownUploadRejected ==
    [][ (/\ req' # req
         /\ IsUploadRequest(req', "PATCH") \/ IsUploadRequest(req', "PUT")
         /\ TargetOf(req') \notin IssuedIDs)
        => /\ resp'.code = "BLOB_UPLOAD_UNKNOWN"
           /\ uploads' = uploads
           /\ blobs' = blobs ]_vars

---------------------------------------------------------------------------
(* layoutHandler: a backend over an OCI image layout on disk, whose reads *)
(* can fail.                                                               *)

\* What reading index.json of the layout gives: the file is missing
\* (os.ErrNotExist), cannot be read or parsed (another error), or lists the
\* images.
IndexStates == {"missing", "unreadable", "ok"}

\* A layout: the state of its index.json and the manifests of its images by
\* digest.
Layout(index, images) == [index |-> index, images |-> images]

\* layout.Path.Image(h)
LayoutImage(lp, h) ==
    IF lp.index = "missing" THEN [err |-> "notexist", mf |-> Manifest("", <<>>)]
    ELSE IF lp.index = "unreadable" THEN [err |-> "unreadable", mf |-> Manifest("", <<>>)]
    ELSE IF h \notin DOMAIN lp.images
    THEN [err |-> "could not find descriptor in index", mf |-> Manifest("", <<>>)]
    ELSE [err |-> "", mf |-> lp.images[h]]

\* layout.Path.ImageIndex(), its media type and its raw manifest.
LayoutImageIndex(lp) ==
    IF lp.index = "missing" THEN [err |-> "notexist", mf |-> Manifest("", <<>>)]
    ELSE IF lp.index = "unreadable" THEN [err |-> "unreadable", mf |-> Manifest("", <<>>)]
    ELSE [err |-> "", mf |-> Manifest(OCIImageIndex, <<0>>)]

\* layoutHandler.GetManifestByDigest
LayoutGetManifestByDigest(lp, repo, digest) ==
    LET h == NewHash(digest)
        img == LayoutImage(lp, h.hash)
        idx == LayoutImageIndex(lp)
    IN  IF h.err # "" THEN [err |-> h.err, mf |-> Manifest("", <<>>)]
        ELSE IF img.err = "" THEN img
        ELSE IF img.err = "notexist"
        THEN IF idx.err = "notexist" THEN [err |-> "notfound", mf |-> Manifest("", <<>>)]
             ELSE idx
        ELSE img

\* layoutHandler.GetManifestByTag
LayoutGetManifestByTag(lp, repo, tag) == [err |-> "notfound", mf |-> Manifest("", <<>>)]

\* layoutHandler.DeleteManifest: layout.Path.RemoveDescriptors rewrites
\* index.json without the descriptors of the digest.
LayoutDeleteManifest(lp, repo, digest) ==
    LET h == NewHash(digest)
    IN  IF h.err # "" THEN [err |-> h.err, lp |-> lp]
        ELSE IF lp.index = "missing" THEN [err |-> "notexist", lp |-> lp]
        ELSE IF lp.index = "unreadable" THEN [err |-> "unreadable", lp |-> lp]
        ELSE [err |-> "", lp |-> [lp EXCEPT !.images = MapDelete(lp.images, h.hash)]]

\* manifests.handle over layoutHandler, cases GET, HEAD and DELETE; the
\* layout is the manifests field of the state.
LayoutManifestsHandle(st, r) ==
    LET elem == r.elem
        n == Len(elem)
        target == elem[n]
        repo == Join(Slice(elem, 1, n - 2))
        lp == st.manifests
        got == IF HasDigestPrefix(target)
               THEN LayoutGetManifestByDigest(lp, repo, target)
               ELSE LayoutGetManifestByTag(lp, repo, target)
        del == LayoutDeleteManifest(lp, repo, target)
    IN  CASE r.method = "GET" -> ManifestsGetAnswer(st, got, TRUE)
          [] r.method = "HEAD" -> ManifestsGetAnswer(st, got, FALSE)
          [] r.method = "DELETE" ->
                IF del.err = "notfound" THEN Outcome(st, regErrManifestUnknown)
                ELSE IF del.err # "" THEN Outcome(st, regErrInternal(del.err))
                ELSE Outcome([st EXCEPT !.manifests = del.lp], Response(202))
          [] OTHER -> Outcome(st, RegError(400, "METHOD_UNKNOWN",
                                           "We don't understand your method + url"))

\* The registry starts over a layout directory in any state: index.json
\* missing, unreadable or listing some of two images.
InitLayout ==
    /\ blobs = EmptyMap
    /\ uploads = EmptyMap
    /\ \E index \in IndexStates, ds \in SUBSET {DigestOf(b) : b \in SharedBodies} :
         manifests = Layout(index, [d \in ds |->
                                      Manifest(OCIManifestSchema1,
                                               CHOOSE b \in SharedBodies : DigestOf(b) = d)])
    /\ nextID = 0
    /\ sent = [u \in IDs |-> <<>>]
    /\ session = [u \in IDs |-> "open"]
    /\ req = NoRequest
    /\ resp = Response(0)
    /\ flight = [c \in Clients |-> NoFlight]
    /\ call = NoCall
    /\ backend = MemCaps
    /\ older = NewOlder

\* registry.root calling v2 on a manifest request r with the layout backend.
ServeLayout(r) ==
    LET o == LayoutManifestsHandle(State(blobs, uploads, manifests), r)
    IN  /\ manifests' = o.st.manifests
        /\ req' = r
        /\ resp' = o.resp
        /\ UNCHANGED <<blobs, uploads, nextID, sent, session, flight, call, backend, older>>

\* GET or HEAD /v2/a/manifests/<target>
LayoutGetReq ==
    /\ Idle
    /\ \E method \in {"GET", "HEAD"}, target \in DeleteTargets :
        ServeLayout(Request(method, <<"v2", "a", "manifests", target>>, "", "", "", "", <<>>))

\* DELETE /v2/a/manifests/<target>
LayoutDeleteReq ==
    /\ Idle
    /\ \E target \in DeleteTargets :
        ServeLayout(Request("DELETE", <<"v2", "a", "manifests", target>>, "", "", "", "", <<>>))

NextLayout == LayoutGetReq \/ LayoutDeleteReq \/ Respond

\* Manifest requests over the layout backend.
SpecLayout == InitLayout /\ [][NextLayout]_vars

---------------------------------------------------------------------------
(* C25: backend failures. *)

\* The error the backend returns to the manifest request r on layout lp.
LayoutError(lp, r) ==
    LET target == TargetOf(r)
    IN  IF r.method = "DELETE" THEN LayoutDeleteManifest(lp, "a", target).err
        ELSE IF HasDigestPrefix(target) THEN LayoutGetManifestByDigest(lp, "a", target).err
        ELSE LayoutGetManifestByTag(lp, "a", target).err

\* C25 (as claimed): a manifest GET, HEAD or DELETE whose backend call
\* returns an error other than not-found is answered 500 INTERNAL_ERROR.
C25_BackendErrorsAreInternal ==
    [][ (req' # req /\ req' # NoRequest
         /\ LayoutError(manifests, req') \notin {"", "notfound"})
        => (resp'.status = 500 /\ resp'.code = "INTERNAL_ERROR") ]_vars

---------------------------------------------------------------------------
(* Backends that implement some of the manifest extension interfaces. *)

\* The manifest extension interfaces of manifest.go.
ManifestCaps ==
    {"manifestTagGet", "manifestPut", "manifestTag", "manifestDelete",
     "manifestDeleteTag", "manifestTagList", "catalog"}

\* The backends: the methods of memHandler, with any of the manifest
\* extension interfaces left out.
InitCaps ==
    /\ blobs = EmptyMap
    /\ uploads = EmptyMap
    /\ manifests = EmptyMap
    /\ nextID = 0
    /\ sent = [u \in IDs |-> <<>>]
    /\ session = [u \in IDs |-> "open"]
    /\ req = NoRequest
    /\ resp = Response(0)
    /\ flight = [c \in Clients |-> NoFlight]
    /\ call = NoCall
    /\ \E c \in SUBSET ManifestCaps : backend = (MemCaps \ ManifestCaps) \cup c
    /\ older = NewOlder

\* GET /v2/a/tags/list
TagsListReq ==
    /\ Idle
    /\ Serve(Request("GET", <<"v2">> \o SharedRepo \o <<"tags", "list">>, "", "", "", "", <<>>), "")
    /\ UNCHANGED <<nextID, sent, session>>

\* PUT, DELETE or GET /v2/a/manifests/<target>
TargetReq ==
    /\ Idle
    /\ \E method \in {"PUT", "DELETE", "GET", "HEAD"}, target \in DeleteTargets,
          body \in SharedBodies :
        /\ method # "PUT" => body = <<1>>
        /\ Serve(Request(method, <<"v2">> \o SharedRepo \o <<"manifests", target>>,
                         "", "", IF method = "PUT" THEN ContentTypeOf(body) ELSE "", "",
                         IF method = "PUT" THEN body ELSE <<>>), "")
        /\ UNCHANGED <<nextID, sent, session>>

NextCaps == TargetReq \/ TagsListReq \/ CatalogAllReq \/ Respond

\* Manifest, tag-list and catalog requests over backends of every
\* capability set.
SpecCaps == InitCaps /\ [][NextCaps]_vars

---------------------------------------------------------------------------
(* C26: capability negotiation. *)

\* The optional interfaces the handling of request r needs: by-tag reads
\* need GetManifestByTag, PUT needs PutManifest and, to a tag, TagManifest,
\* DELETE needs DeleteManifest for a digest and DeleteManifestByTag for a
\* tag, the tag list needs ListTags and the catalog needs Catalog.
Needs(r) ==
    IF isManifest(r)
    THEN LET byTag == ~HasDigestPrefix(TargetOf(r))
         IN  CASE r.method \in {"GET", "HEAD"} ->
                    IF byTag THEN {"manifestTagGet"} ELSE {}
               [] r.method = "PUT" ->
                    {"manifestPut"} \cup (IF byTag THEN {"manifestTag"} ELSE {})
               [] r.method = "DELETE" ->
                    IF byTag THEN {"manifestDeleteTag"} ELSE {"manifestDelete"}
               [] OTHER -> {}
    ELSE IF isTags(r) /\ r.method = "GET" THEN {"manifestTagList"}
    ELSE IF isCatalog(r) /\ r.method = "GET" THEN {"catalog"}
    ELSE {}

\* C26 (as claimed): a request whose handling needs an interface the
\* backend lacks is answered UNSUPPORTED, never with success.
C26_MissingCapabilityUnsupported ==
    (req # NoRequest /\ ~(Needs(req) \subseteq backend))
    => resp = regErrUnsupported

---------------------------------------------------------------------------
(* Uploads finished through FinishUpload and Put. *)

\* A backend with memHandler's methods except FinalizeUpload: the
\* finalizing PUT goes through FinishUpload and Put.
FinishCaps == MemCaps \ {"uploadFinalize"}

InitFinish ==
    /\ blobs = EmptyMap
    /\ uploads = EmptyMap
    /\ manifests = EmptyMap
    /\ nextID = 0
    /\ sent = [u \in IDs |-> <<>>]
    /\ session = [u \in IDs |-> "open"]
    /\ req = NoRequest
    /\ resp = Response(0)
    /\ flight = [c \in Clients |-> NoFlight]
    /\ call = NoCall
    /\ backend = FinishCaps
    /\ older = NewOlder

\* POST /v2/a/blobs/uploads/
BeginReq ==
    /\ Idle
    /\ nextID < MaxIDs
    /\ Serve(Request("POST", <<"v2">> \o SharedRepo \o <<"blobs", "uploads", "">>,
                     "", "", "", "", <<>>), ToString(nextID + 1))
    /\ nextID' = nextID + 1
    /\ UNCHANGED <<sent, session>>

NextFinish ==
    BeginReq \/ PatchReq \/ FinalizeReq \/ MonolithicReq \/ ReadBlob \/ Respond

\* One upload session and monolithic uploads to one repository, over a
\* backend without FinalizeUpload.
SpecFinish == InitFinish /\ [][NextFinish]_vars

---------------------------------------------------------------------------
(* C27: the repository of blob requests. *)

\* The path segments between /v2/ and the blobs keyword of a blob path.
SegmentsBeforeBlobs(elem) ==
    LET n == Len(elem)
        k == IF elem[n - 1] = "blobs" THEN n - 1 ELSE n - 2
    IN  SubSeq(elem, 2, k - 1)

\* C27 (as claimed): whenever the blob engine hands a repository name to
\* the backend (Get and Stat of GET and HEAD, Put of the monolithic POST and
\* of the finalizing PUT), the name is the '/'-join of the segments between
\* /v2/ and the blobs keyword.
C27_RepoIsPathBeforeBlobs ==
    (/\ req # NoRequest
     /\ isBlob(req)
     /\ resp.status \in {200, 201})
    => BlobsRepo(DropTrailingEmpty(req.elem))
          = Join(SegmentsBeforeBlobs(DropTrailingEmpty(req.elem)))

---------------------------------------------------------------------------
(* Upload sessions begun under one repository and used under another. *)

\* A repository other than the one sessions are begun under.
OtherRepo == <<"m">>

\* PATCH /v2/m/blobs/uploads/<id>
OtherPatchReq ==
    /\ Idle
    /\ \E u \in IDs, body \in PatchBodies, cr \in PatchRanges :
        /\ PendingBytes(uploads) + Len(body) <= MaxLen
        /\ Serve(Request("PATCH", <<"v2">> \o OtherRepo \o <<"blobs", "uploads", u>>,
                         "", cr, "", "", body), "")
        /\ sent' = IF resp'.status = 204 /\ session[u] = "open"
                   THEN [sent EXCEPT ![u] = @ \o body] ELSE sent
        /\ UNCHANGED <<nextID, session>>

\* PUT /v2/m/blobs/uploads/<id>?digest=<d> with an empty body
OtherPutReq ==
    /\ Idle
    /\ \E u \in IDs :
      \E d \in ClaimedDigests(Lookup(uploads, u)) :
        /\ Serve(Request("PUT", <<"v2">> \o OtherRepo \o <<"blobs", "uploads", u>>,
                         d, "", "", "", <<>>), "")
        /\ session' = [session EXCEPT ![u] =
                          IF resp'.status = 201 \/ @ = "finalized" THEN "finalized" ELSE "closed"]
        /\ sent' = [sent EXCEPT ![u] = <<>>]
        /\ UNCHANGED nextID

NextScoped == BeginReq \/ PatchReq \/ OtherPatchReq \/ OtherPutReq \/ Respond

\* Sessions begun and appended to under repository a, and requests that
\* present their ids under repository m.
SpecScoped == Init /\ [][NextScoped]_vars

---------------------------------------------------------------------------
(* C28: sessions belong to the repository they were begun under. *)

\* The repository path segments of an upload request with an id.
UploadRepoOf(r) == SubSeq(r.elem, 2, Len(r.elem) - 3)

\* C28 (as claimed): a PATCH or PUT that presents the id of a session begun
\* under repository a through a path naming another repository neither
\* changes the session's bytes nor finalizes it into a blob.
C28_SessionsAreRepoScoped ==
    [][ (/\ req' # req
         /\ IsUploadRequest(req', "PATCH") \/ IsUploadRequest(req', "PUT")
         /\ TargetOf(req') \in IssuedIDs
         /\ UploadRepoOf(req') # SharedRepo)
        => /\ uploads' = uploads
           /\ blobs' = blobs
           /\ resp'.status \notin {201, 204} ]_vars

---------------------------------------------------------------------------
(* One chunked upload. *)

NextUpload == BeginReq \/ PatchReq \/ FinalizeReq \/ Respond

\* The begin-upload POST, the PATCHes and the finalizing PUT of upload 1 in
\* repository a.
SpecUpload == Init /\ [][NextUpload]_vars

---------------------------------------------------------------------------
(* C29: the headers of a PATCH response. *)

\* The Location the begin-upload POST to repository repo returns with id.
BeginLocation(repo, id) ==
    BlobsHandle(MemCaps, Store,
                Request("POST", <<"v2">> \o repo \o <<"blobs", "uploads", "">>,
                        "", "", "", "", <<>>),
                id).resp.location

\* C29: a PATCH of a session that a begin-upload POST returned, when
\* answered with success, is answered 204 with Range 0-(T-1), T being the
\* bytes the session held before plus those of the request, and with the
\* Location that the POST returned.
C29_PatchHeaders ==
    [][ (/\ req' # req
         /\ IsUploadRequest(req', "PATCH")
         /\ TargetOf(req') \in IssuedIDs
         /\ resp'.status \in 200..299)
        => LET u == TargetOf(req')
               T == Len(Lookup(uploads, u)) + Len(req'.body)
           IN  /\ resp'.status = 204
               /\ resp'.range = "0-" \o ToString(T - 1)
               /\ Len(uploads'[u]) = T
               /\ resp'.location = BeginLocation(UploadRepoOf(req'), u)
               /\ resp'.location = "/v2/a/blobs/uploads/" \o u ]_vars

\* A second chunk has been accepted: the session holds more than the chunk.
C29_Witness ==
    /\ req.method = "PATCH"
    /\ resp.status = 204
    /\ nextID >= 1
    /\ Len(Lookup(uploads, SharedUpload)) > Len(req.body)
    /\ resp.range = "0-1"

---------------------------------------------------------------------------
(* C30: PATCH without Content-Range. *)

\* C30: a PATCH without Content-Range is accepted only when the session
\* holds no bytes; when it holds bytes the answer is 400
\* BLOB_UPLOAD_INVALID and the bytes stay as they are.
C30_StreamOnlyIntoEmpty ==
    [][ (/\ req' # req
         /\ IsUploadRequest(req', "PATCH")
         /\ req'.contentRange = "")
        => LET u == TargetOf(req')
           IN  IF Lookup(uploads, u) = <<>>
               THEN resp'.status = 204 /\ Lookup(uploads', u) = req'.body
               ELSE /\ resp'.status = 400
                    /\ resp'.code = "BLOB_UPLOAD_INVALID"
                    /\ uploads' = uploads ]_vars

\* A PATCH without Content-Range has been refused on a session with bytes.
C30_Witness ==
    /\ req.method = "PATCH"
    /\ req.contentRange = ""
    /\ req.body # <<>>
    /\ resp.code = "BLOB_UPLOAD_INVALID"
    /\ Lookup(uploads, SharedUpload) # <<>>

---------------------------------------------------------------------------
(* The capability-based and the Storage-based registry, served the same    *)
(* requests.                                                               *)

\* registry.root of both registries on request r: each calls its own
\* blobs.handle, rand.Int63 returning id in both.
ServeBoth(r, id) ==
    LET o == BlobsHandle(backend, State(blobs, uploads, manifests), r, id)
    IN  /\ blobs' = o.st.blobs
        /\ uploads' = o.st.uploads
        /\ req' = r
        /\ resp' = o.resp
        /\ older' = StorageBlobsHandle(older, r, id)
        /\ UNCHANGED <<manifests, flight, call, backend>>

\* POST /v2/a/blobs/uploads/ to both registries.
BothBegin ==
    /\ Idle
    /\ nextID < MaxIDs
    /\ ServeBoth(Request("POST", <<"v2">> \o SharedRepo \o <<"blobs", "uploads", "">>,
                         "", "", "", "", <<>>), ToString(nextID + 1))
    /\ nextID' = nextID + 1
    /\ UNCHANGED <<sent, session>>

\* PATCH /v2/a/blobs/uploads/<id> without Content-Range to both registries,
\* by a client that sends one PATCH to each session it has begun.
BothPatch ==
    /\ Idle
    /\ \E u \in IssuedIDs, body \in Contents :
        /\ session[u] = "open"
        /\ ServeBoth(Request("PATCH", <<"v2">> \o SharedRepo \o <<"blobs", "uploads", u>>,
                             "", "", "", "", body), "")
        /\ session' = [session EXCEPT ![u] = "patched"]
        /\ sent' = IF resp'.status = 204 THEN [sent EXCEPT ![u] = @ \o body] ELSE sent
        /\ UNCHANGED nextID

\* PUT /v2/a/blobs/uploads/<id>?digest=<d> to both registries, once per
\* session; the digest is that of the body, that of the PATCH's body
\* followed by it, or another.
BothPut ==
    /\ Idle
    /\ \E u \in IssuedIDs, body \in Contents :
      \E d \in ClaimedDigests(sent[u] \o body) \cup {DigestOf(body)} :
        /\ session[u] \in {"open", "patched"}
        /\ Len(sent[u]) + Len(body) <= MaxLen
        /\ ServeBoth(Request("PUT", <<"v2">> \o SharedRepo \o <<"blobs", "uploads", u>>,
                             d, "", "", "", body), "")
        /\ session' = [session EXCEPT ![u] =
                          IF resp'.status = 201 \/ @ = "finalized" THEN "finalized" ELSE "closed"]
        /\ sent' = [sent EXCEPT ![u] = <<>>]
        /\ UNCHANGED nextID

NextBoth == BothBegin \/ BothPatch \/ BothPut \/ Respond

\* Chunked uploads to the two registries side by side.
SpecBoth == Init /\ [][NextBoth]_vars

---------------------------------------------------------------------------
(* C31: the Storage-based handler against the capability-based one. *)

\* C31 (as claimed): when a session has seen its begin POST and one PATCH
\* without Content-Range, a PUT with digest that the Storage-based handler
\* answers 201 is answered 201 by the capability-based handler too, and
\* both store the same bytes under that digest.
C31_OlderIsSubsumed ==
    [][ (/\ req' # req
         /\ IsUploadRequest(req', "PUT")
         /\ session[TargetOf(req')] = "patched"
         /\ older'.resp.status = 201)
        => /\ resp'.status = 201
           /\ req'.digest \in DOMAIN blobs'
           /\ blobs'[req'.digest] = older'.blobs[req'.digest] ]_vars

---------------------------------------------------------------------------
(* C32: the range check and the append of a PATCH. *)

\* C32 (as claimed): for any interleaving of PATCHes with Content-Range on
\* one upload id, a PATCH answered 204 for the range s-e stored its body
\* starting at offset s of the session, so that two PATCHes that declare
\* the same start are never both answered 204.
C32_RangeCheckAndAppendAtomic ==
    [][ \A c \in Clients :
          (/\ flight'[c] # flight[c]
           /\ flight'[c].r.method = "PATCH"
           /\ flight'[c].r.contentRange # ""
           /\ flight'[c].pos = "done"
           /\ flight'[c].resp.status = 204)
          => LET r == flight'[c].r
                 u == TargetOf(r)
                 s == ScanRange(r.contentRange).start
             IN  /\ Len(Lookup(uploads, u)) = s
                 /\ Len(uploads'[u]) = s + Len(r.body)
                 /\ SubSeq(uploads'[u], s + 1, s + Len(r.body)) = r.body ]_vars

---------------------------------------------------------------------------
(* Index PUTs by tag. *)

\* The bodies PUT as indexes by tag: one that is not JSON, and indexes with
\* one child of image or layer media type.
TaggedIndexBodies == {<<0>>, <<3>>, <<4>>, <<7>>}

\* PUT /v2/<repo>/manifests/<target> with the Content-Type of an index; the
\* target is the tag latest or the digest of the body.
PutIndexTagReq ==
    /\ Idle
    /\ \E repo \in IndexRepos, body \in TaggedIndexBodies :
      \E target \in {"latest", DigestOf(body)} :
        /\ Serve(Request("PUT", <<"v2">> \o repo \o <<"manifests", target>>,
                         "", "", OCIImageIndex, "", body), "")
        /\ UNCHANGED <<nextID, sent, session>>

NextTagged == PutTagReq \/ PutChildReq \/ PutIndexTagReq \/ Respond

\* PUTs of image manifests by tag and by digest and of indexes by tag.
SpecTagged == Init /\ [][NextTagged]_vars

---------------------------------------------------------------------------
(* C33: a rejected index PUT. *)

\* C33: when a PUT with the Content-Type of an index is rejected, with
\* MANIFEST_INVALID for a body that does not parse or MANIFEST_UNKNOWN for
\* a missing child, the body is stored under its digest all the same: GET
\* by digest returns it, every catalog answer lists the repository, and the
\* key of the tag the PUT named holds what it held before, or is absent as
\* before.
C33_RejectedPutIsNotRolledBack ==
    [][ (/\ req' # req
         /\ IsManifestPut(req')
         /\ IsIndex(req'.contentType)
         /\ resp'.code \in {"MANIFEST_INVALID", "MANIFEST_UNKNOWN"})
        => LET R == Join(RepoOf(req'))
               d == DigestOf(req'.body)
               t == TargetOf(req')
               got == ManifestAnswer(StoreAfter, "GET", RepoOf(req'), d)
           IN  /\ got.status = 200
               /\ got.body = req'.body
               /\ got.ctype = req'.contentType
               /\ \A o \in HandleCatalog(MemCaps, StoreAfter,
                                         Request("GET", <<"v2", "_catalog">>,
                                                 "", "", "", "", <<>>)) :
                     \E i \in DOMAIN o.resp.list : o.resp.list[i] = R
               /\ ~HasDigestPrefix(t)
                    => /\ (t \in DOMAIN manifests'[R]) <=> (t \in DOMAIN Lookup(manifests, R))
                       /\ t \in DOMAIN manifests'[R] => manifests'[R][t] = manifests[R][t]
               /\ manifests' = MapSet(manifests, R,
                                      MapSet(Lookup(manifests, R), d,
                                             Manifest(req'.contentType, req'.body))) ]_vars

\* An index PUT to a tag that resolves to an image manifest has been
\* refused for a missing child: the index is stored by digest and the tag
\* still resolves to the image manifest.
C33_Witness ==
    /\ IsManifestPut(req)
    /\ IsIndex(req.contentType)
    /\ resp.code = "MANIFEST_UNKNOWN"
    /\ TargetOf(req) = "latest"
    /\ LET R == Join(RepoOf(req))
       IN  /\ DigestOf(req.body) \in DOMAIN manifests[R]
           /\ "latest" \in DOMAIN manifests[R]
           /\ manifests[R]["latest"].blob \in SharedBodies

---------------------------------------------------------------------------
(* C34: a finalizing PUT that fails verification. *)

\* The response to PUT /v2/a/blobs/uploads/<u>?digest=<d> with an empty body
\* in state st.
RetryAnswer(st, u, d) ==
    BlobsHandle(MemCaps, st,
                Request("PUT", <<"v2">> \o SharedRepo \o <<"blobs", "uploads", u>>,
                        d, "", "", "", <<>>),
                "").resp

\* C34: a finalizing PUT whose digest is not that of the session's bytes
\* followed by its body is refused, stores no blob and leaves the session
\* without bytes; a PUT that then names the digest of the bytes uploaded
\* before is refused as well.
C34_FailedPutDiscardsSession ==
    [][ (/\ req' # req
         /\ IsUploadRequest(req', "PUT")
         /\ NewHash(req'.digest).err = ""
         /\ req'.digest # DigestOf(Lookup(uploads, TargetOf(req')) \o req'.body))
        => LET u == TargetOf(req')
               before == Lookup(uploads, u) \o req'.body
           IN  /\ resp'.status \notin 200..299
               /\ blobs' = blobs
               /\ StatUpload(StoreAfter, u).size = 0
               /\ u \notin DOMAIN uploads'
               /\ before # <<>> => RetryAnswer(StoreAfter, u, DigestOf(before)).status # 201 ]_vars

\* A PUT that named the digest of the empty string has been refused: the
\* session held bytes, and holds none now.
C34_Witness ==
    /\ IsUploadRequest(req, "PUT")
    /\ req.body = <<>>
    /\ req.digest = DigestOf(<<>>)
    /\ resp.status = 500
    /\ nextID >= 1
    /\ Lookup(uploads, TargetOf(req)) = <<>>

---------------------------------------------------------------------------
(* C35: what a manifest DELETE leaves alone. *)

\* C35: a manifest DELETE removes the one key its target names and nothing
\* else: after deleting a digest every tag that held the same manifest is
\* still answered with its bytes, after deleting a tag the digest is, every
\* other key of every repository is answered as before, and blobs and
\* upload sessions stay as they are.
C35_DeleteRemovesOneKey ==
    [][ (req' # req /\ req'.method = "DELETE" /\ isManifest(req'))
        => LET R == Join(RepoOf(req'))
               t == TargetOf(req')
           IN  /\ blobs' = blobs
               /\ uploads' = uploads
               /\ DOMAIN manifests' = DOMAIN manifests
               /\ \A Q \in DOMAIN manifests :
                     /\ DOMAIN manifests'[Q] =
                          IF Q = R /\ resp'.status = 202
                          THEN DOMAIN manifests[Q] \ {t} ELSE DOMAIN manifests[Q]
                     /\ \A k \in DOMAIN manifests'[Q] : manifests'[Q][k] = manifests[Q][k]
               /\ \A repo \in IndexRepos, k \in DeleteTargets \ {t} :
                     \A method \in {"GET", "HEAD"} :
                        ManifestAnswer(StoreAfter, method, repo, k)
                          = ManifestAnswer(Store, method, repo, k) ]_vars

\* A digest has been deleted while a tag of the same repository holds the
\* manifest of that digest: the tag still resolves to it.
C35_Witness ==
    /\ req.method = "DELETE"
    /\ resp.status = 202
    /\ HasDigestPrefix(TargetOf(req))
    /\ LET R == Join(RepoOf(req))
       IN  /\ "latest" \in DOMAIN manifests[R]
           /\ DigestOf(manifests[R]["latest"].blob) = TargetOf(req)

---------------------------------------------------------------------------
(* Re-tagging. *)

\* The bodies PUT under tags: two image manifests and an index whose child
\* is the first of them.
RetagBodies == {<<1>>, <<2>>, <<3>>}

\* PUT /v2/<repo>/manifests/<tag>
RetagReq ==
    /\ Idle
    /\ \E repo \in Repos, tag \in Tags, body \in RetagBodies :
        /\ Serve(Request("PUT", <<"v2">> \o repo \o <<"manifests", tag>>,
                         "", "", ContentTypeOf(body), "", body), "")
        /\ UNCHANGED <<nextID, sent, session>>

NextRetag == RetagReq \/ Respond

\* Manifest PUTs under two tags of three repositories.
SpecRetag == Init /\ [][NextRetag]_vars

---------------------------------------------------------------------------
(* C36: re-tagging. *)

\* C36: a PUT of M2 under a tag that is answered 201 makes the tag resolve
\* to M2 and leaves every manifest the repository stored by digest
\* retrievable by that digest, the one the tag resolved to before
\* included; a PUT that is refused leaves the tag as it was, and no
\* PUT changes another tag or another repository.  So a tag always
\* resolves to the body of the last PUT to it that succeeded.
C36_TagFollowsLastPut ==
    [][ (req' # req /\ IsManifestPut(req') /\ ~HasDigestPrefix(TargetOf(req')))
        => LET R == Join(RepoOf(req'))
               t == TargetOf(req')
               now == ManifestAnswer(StoreAfter, "GET", RepoOf(req'), t)
           IN  /\ resp'.status = 201
                    => /\ now.status = 200
                       /\ now.body = req'.body
                       /\ now.digest = DigestOf(req'.body)
               /\ resp'.status # 201
                    => now = ManifestAnswer(Store, "GET", RepoOf(req'), t)
               /\ \A k \in DOMAIN Lookup(manifests, R) :
                     HasDigestPrefix(k)
                     => LET byDigest == ManifestAnswer(StoreAfter, "GET", RepoOf(req'), k)
                        IN  /\ byDigest.status = 200
                            /\ byDigest.body = manifests[R][k].blob
                            /\ DigestOf(byDigest.body) = k
               /\ \A repo \in Repos, tag \in Tags :
                     (repo # RepoOf(req') \/ tag # t)
                     => ManifestAnswer(StoreAfter, "GET", repo, tag)
                          = ManifestAnswer(Store, "GET", repo, tag) ]_vars

\* A tag that resolved to one manifest has been PUT with another: the tag
\* resolves to the second and the digest of the first is still stored.
C36_Witness ==
    /\ IsManifestPut(req)
    /\ resp.status = 201
    /\ LET R == Join(RepoOf(req))
       IN  /\ DOMAIN manifests[R] =
                {TargetOf(req), DigestOf(req.body)}
                  \cup {DigestOf(b) : b \in SharedBodies \ {req.body}}
           /\ manifests[R][TargetOf(req)].blob = req.body
           /\ Cardinality(DOMAIN manifests[R]) = 3

---------------------------------------------------------------------------
(* Blobs and manifests read under several repository names. *)

NextNamespace ==
    MonolithicReq \/ HeadBlob \/ GetBlob \/ PutTagReq \/ GetManifest
        \/ HeadManifest \/ Respond

\* Blobs uploaded to repository a and read under a and m; manifests PUT to
\* a and m and read under a, m and z.
SpecNamespace == Init /\ [][NextNamespace]_vars

---------------------------------------------------------------------------
(* C37: one blob namespace, one manifest namespace per repository. *)

\* C37: a blob that is stored, under whatever repository it was uploaded,
\* is answered 200 by HEAD and GET under every repository name, with its
\* digest, its length and (GET) its bytes; a manifest GET or HEAD is
\* answered 200 only with what the repository of the request itself holds
\* under the target, and 404 MANIFEST_UNKNOWN when that repository does not
\* hold it, whatever other repositories hold.
C37_BlobsSharedManifestsScoped ==
    [][ /\ (req' # req /\ req'.method \in {"GET", "HEAD"} /\ isBlob(req')
              /\ TargetOf(req') \in DOMAIN blobs)
           => LET d == TargetOf(req')
              IN  /\ resp'.status = 200
                  /\ resp'.digest = d
                  /\ resp'.length = Len(blobs[d])
                  /\ req'.method = "GET" => resp'.body = blobs[d]
                  /\ \A repo \in Repos : BlobAnswer(Store, req'.method, repo, d) = resp'
        /\ (req' # req /\ req'.method \in {"GET", "HEAD"} /\ isManifest(req'))
           => LET R == Join(RepoOf(req'))
                  t == TargetOf(req')
              IN  IF t \in DOMAIN Lookup(manifests, R)
                  THEN /\ resp'.status = 200
                       /\ resp'.digest = DigestOf(manifests[R][t].blob)
                       /\ req'.method = "GET" => resp'.body = manifests[R][t].blob
                  ELSE resp' = regErrManifestUnknown ]_vars

\* A blob has been read with 200 under repository m, where nothing is
\* uploaded, while repository a holds a manifest under a digest that
\* repository m does not hold.
C37_Witness ==
    /\ req.method = "GET"
    /\ isBlob(req)
    /\ RepoOf(req) = <<"m">>
    /\ resp.status = 200
    /\ resp.body = blobs[TargetOf(req)]
    /\ "a" \in DOMAIN manifests
    /\ \E k \in DOMAIN manifests["a"] : k \notin DOMAIN Lookup(manifests, "m")

=============================================================================
